---- MODULE Spec2Model ----
(***************************************************************************)
(* Verification model of the worktree-operator tools:                      *)
(*   - plan_parser.py : the task dependency graph read from plan.md        *)
(*   - batch spawning driven by the plan graph                             *)
(*   - the file based workspace lock and the operations run under it       *)
(*   - the accept transaction (checkpoint, steps, rollback, cleanup)       *)
(***************************************************************************)
EXTENDS Integers, Sequences, FiniteSets, TLC

VARIABLES
    plan,       \* parsed content of plan.md: [readable, order, tasks]
    worktrees,  \* names t for which task-<t>/worktree exists
    folders,    \* names t for which the task folder task-<t> exists
    res,        \* the value returned by the last plan/batch call
    seen,       \* plan.md as the first query read it (NoPlan: no query yet)
    pc,         \* per process: where it is in its operation
    op,         \* per process: the operation it runs ("none" when idle)
    blocking,   \* per process: the `blocking` argument of its acquire
    fd,         \* per process: inode its lock handle has open (0: none)
    locked,     \* per process: it holds the OS-level lock on inode fd
    started,    \* per process: clock value when its acquire began waiting
    solo,       \* per process: its acquire found a dead holder's sidecar
                \* and no other process has used the lock since
    lockFile,   \* inode linked at .workspace.lock (0: no such file)
    info,       \* content of .workspace.lock.info (NoInfo: no such file)
    now,        \* the clock
    lockErr,    \* per process: the lock error its acquire failed with
    repo,       \* git state of the primary clone and of the task's worktree
    tx,         \* the accept transaction: position, checkpoint, step log
    health      \* a task's sub-agent status record (NoStatus: no such file)

planVars == <<plan, worktrees, folders, res, seen>>

lockVars == <<pc, op, blocking, fd, locked, started, solo, lockFile, info, now,
              lockErr>>

acceptVars == <<repo, tx>>

vars == <<plan, worktrees, folders, res, seen, pc, op, blocking, fd, locked, started, solo,
          lockFile, info, now, lockErr, repo, tx, health>>

(***************************************************************************)
(* The workspace before any operation has run                              *)
(***************************************************************************)
\* the processes (operator commands) working on one workspace
Procs == {"p1", "p2", "p3"}

\* no sidecar file
NoInfo == [pid |-> "none", operation |-> "none", acquired_at |-> 0]

\* no lock error: the acquire has not failed
NoLockError == [kind |-> "none", holder |-> NoInfo, locked_by |-> {}]

\* no process runs an operation, no lock file, no sidecar
LockInit ==
    /\ pc = [p \in Procs |-> "idle"]
    /\ op = [p \in Procs |-> "none"]
    /\ blocking = [p \in Procs |-> FALSE]
    /\ fd = [p \in Procs |-> 0]
    /\ locked = [p \in Procs |-> FALSE]
    /\ started = [p \in Procs |-> 0]
    /\ solo = [p \in Procs |-> FALSE]
    /\ lockFile = 0
    /\ info = NoInfo
    /\ now = 0
    /\ lockErr = [p \in Procs |-> NoLockError]

\* commit ids: main before the accept, the task branch before and after the
\* rebase, the merge commit
Commits == {"m0", "w0", "w1", "mc"}

\* a clone on main at m0 with the task's worktree at w0, nothing in flight
CleanRepo ==
    [main |-> "m0", head |-> "main", merging |-> FALSE,
     wt |-> "w0", rebasing |-> FALSE,
     wt_exists |-> TRUE, local_branch |-> TRUE, remote_branch |-> TRUE,
     remote_main |-> "m0"]

NoCheckpoint == [main |-> "none", wt |-> "none", branch |-> "none"]

\* no accept transaction has been started
NoTx ==
    [pc |-> "none", push |-> FALSE, delete_remote |-> FALSE,
     checkpoint |-> NoCheckpoint, completed |-> <<>>, undo |-> <<>>,
     failed |-> "none", tests |-> 0, test_log |-> <<>>, pushed |-> FALSE,
     rollback_log |-> <<>>, rollback_errors |-> <<>>, warnings |-> <<>>,
     rolled_back |-> FALSE, success |-> FALSE]

\* no status record: .subagent-status.json does not exist
NoStatus ==
    [status |-> "none", progress |-> "none", error |-> "none",
     started_at |-> <<>>, last_heartbeat |-> <<>>, completed_at |-> <<>>]

HealthIdle == health = NoStatus

AcceptIdle ==
    /\ repo = CleanRepo
    /\ tx = NoTx

(***************************************************************************)
(* plan_parser.py                                                          *)
(***************************************************************************)
COMPLETED_STATUSES == {"COMPLETED", "DONE", "MERGED"}

VALID_STATUSES ==
    {"PENDING", "IN_PROGRESS", "IN_REVIEW", "ITERATING",
     "COMPLETED", "DONE", "MERGED", "BLOCKED", "ABANDONED"}

\* the literal tuple tested by get_unblocked_tasks and check_dependencies
IN_PROGRESS_STATUSES == {"IN_PROGRESS", "IN_REVIEW", "ITERATING"}

\* task names that head a section of plan.md, in document order
TaskOrder == <<"task-a", "task-b">>

TaskNames == {TaskOrder[i] : i \in DOMAIN TaskOrder}

\* names a Dependencies line can mention: the plan's tasks and one name
\* that heads no section of plan.md
DepNames == TaskNames \cup {"task-x"}

\* longest dependency list of the enumerated plans
MaxDeps == 2

DepLists == UNION {[1..n -> DepNames] : n \in 0..MaxDeps}

TaskInfo == [status : VALID_STATUSES, dependencies : DepLists]

NoPlan == [readable |-> FALSE, order |-> <<>>, tasks |-> <<>>]

PlanInputs ==
    {[readable |-> TRUE, order |-> TaskOrder, tasks |-> f] :
        f \in [TaskNames -> TaskInfo]} \cup {NoPlan}

\* parse_plan treating a plan.md it cannot read as a plan without tasks
ParsePlan_UnreadableIsEmpty(p) ==
    IF p.readable
    THEN [success |-> TRUE, tasks |-> p.tasks, order |-> p.order]
    ELSE [success |-> TRUE, tasks |-> <<>>, order |-> <<>>]

\* parse_plan: the result dict for the current plan.md
ParsePlan(p) ==
    IF p.readable
    THEN [success |-> TRUE, tasks |-> p.tasks, order |-> p.order]
    ELSE [success |-> FALSE, tasks |-> <<>>, order |-> <<>>]

\* UnblockedDepMissing with the `dep_info is None` branch lost: a name that
\* heads no section counts as satisfied
UnblockedDepMissing_AbsentSatisfied(tasks, dep) ==
    IF dep \notin DOMAIN tasks
    THEN FALSE
    ELSE tasks[dep].status \notin COMPLETED_STATUSES

\* UnblockedDepMissing counting a dependency that itself still waits
\* (PENDING, BLOCKED) as satisfied
UnblockedDepMissing_WaitingSatisfied(tasks, dep) ==
    IF dep \notin DOMAIN tasks
    THEN TRUE
    ELSE tasks[dep].status \notin (COMPLETED_STATUSES \cup {"PENDING", "BLOCKED"})

\* get_unblocked_tasks, the test applied to one dependency of a
\* PENDING/BLOCKED task: does it go to the `missing` list
UnblockedDepMissing(tasks, dep) ==
    IF dep \notin DOMAIN tasks
    THEN TRUE
    ELSE tasks[dep].status \notin COMPLETED_STATUSES

\* UnblockedMissing leaving the loop at the first unmet dependency
UnblockedMissing_StopsAtFirst(tasks, deps) ==
    LET all == SelectSeq(deps, LAMBDA dep : UnblockedDepMissing(tasks, dep))
    IN  IF all = <<>> THEN <<>> ELSE <<all[1]>>

\* get_unblocked_tasks, the loop building `missing` in declared order
UnblockedMissing(tasks, deps) ==
    SelectSeq(deps, LAMBDA dep : UnblockedDepMissing(tasks, dep))

EmptyBuckets ==
    [unblocked |-> <<>>, blocked |-> <<>>, blockedNames |-> <<>>,
     in_progress |-> <<>>, completed |-> <<>>]

\* CategorizeTask looking at the dependencies before the status
CategorizeTask_DependenciesFirst(tasks, name, acc) ==
    LET status == tasks[name].status
        deps   == tasks[name].dependencies
        missing == UnblockedMissing(tasks, deps)
    IN  IF status = "ABANDONED"
        THEN acc
        ELSE IF missing # <<>>
        THEN [acc EXCEPT
                !.blockedNames = Append(@, name),
                !.blocked = Append(@, [missing |-> missing, status |-> status])]
        ELSE IF status \in COMPLETED_STATUSES
        THEN [acc EXCEPT !.completed = Append(@, name)]
        ELSE IF status \in IN_PROGRESS_STATUSES
        THEN [acc EXCEPT !.in_progress = Append(@, name)]
        ELSE [acc EXCEPT !.unblocked = Append(@, name)]

\* CategorizeTask holding a task whose Status line says BLOCKED in `blocked`
\* even when all its dependencies are completed
CategorizeTask_BlockedStatusHeld(tasks, name, acc) ==
    LET status == tasks[name].status
        deps   == tasks[name].dependencies
        missing == UnblockedMissing(tasks, deps)
    IN  IF status \in COMPLETED_STATUSES
        THEN [acc EXCEPT !.completed = Append(@, name)]
        ELSE IF status \in IN_PROGRESS_STATUSES
        THEN [acc EXCEPT !.in_progress = Append(@, name)]
        ELSE IF status = "ABANDONED"
        THEN acc
        ELSE IF missing # <<>> \/ status = "BLOCKED"
        THEN [acc EXCEPT
                !.blockedNames = Append(@, name),
                !.blocked = Append(@, [missing |-> missing, status |-> status])]
        ELSE [acc EXCEPT !.unblocked = Append(@, name)]

\* get_unblocked_tasks, one iteration of the loop over tasks.items():
\* `acc` holds the four buckets; `blocked` is kept as the sequence of its
\* keys (blockedNames) and the parallel sequence of its values (blocked).
CategorizeTask(tasks, name, acc) ==
    LET status == tasks[name].status
        deps   == tasks[name].dependencies
        missing == UnblockedMissing(tasks, deps)
    IN  IF status \in COMPLETED_STATUSES
        THEN [acc EXCEPT !.completed = Append(@, name)]
        ELSE IF status \in IN_PROGRESS_STATUSES
        THEN [acc EXCEPT !.in_progress = Append(@, name)]
        ELSE IF status = "ABANDONED"
        THEN acc
        ELSE IF deps = <<>>
        THEN [acc EXCEPT !.unblocked = Append(@, name)]
        ELSE IF missing # <<>>
        THEN [acc EXCEPT
                !.blockedNames = Append(@, name),
                !.blocked = Append(@, [missing |-> missing, status |-> status])]
        ELSE [acc EXCEPT !.unblocked = Append(@, name)]

RECURSIVE CategorizeAll(_, _, _)
CategorizeAll(tasks, order, acc) ==
    IF order = <<>>
    THEN acc
    ELSE CategorizeAll(tasks, Tail(order), CategorizeTask(tasks, Head(order), acc))

\* get_unblocked_tasks
GetUnblockedTasks(p) ==
    LET plan_result == ParsePlan(p)
        b == IF plan_result.success
             THEN CategorizeAll(plan_result.tasks, plan_result.order, EmptyBuckets)
             ELSE EmptyBuckets
    IN  [success |-> plan_result.success,
         has_error |-> ~plan_result.success,
         unblocked |-> b.unblocked,
         blockedNames |-> b.blockedNames,
         blocked |-> b.blocked,
         in_progress |-> b.in_progress,
         completed |-> b.completed]

\* CheckMissing with the `dep_info is None` branch lost
CheckMissing_AbsentSatisfied(tasks, deps) ==
    SelectSeq(deps, LAMBDA dep :
        IF dep \notin DOMAIN tasks
        THEN FALSE
        ELSE tasks[dep].status \notin COMPLETED_STATUSES)

\* check_dependencies, the loop over deps: the `missing` list
CheckMissing(tasks, deps) ==
    SelectSeq(deps, LAMBDA dep :
        IF dep \notin DOMAIN tasks
        THEN TRUE
        ELSE tasks[dep].status \notin COMPLETED_STATUSES)

\* check_dependencies, the loop over deps: the `completed` list
CheckCompleted(tasks, deps) ==
    SelectSeq(deps, LAMBDA dep :
        IF dep \notin DOMAIN tasks
        THEN FALSE
        ELSE tasks[dep].status \in COMPLETED_STATUSES)

\* CheckCompletedTask doing what the comment above it in the source says
\* ("warn but allow")
CheckCompletedTask_Allows(status, deps) ==
    [success |-> TRUE, can_spawn |-> TRUE, task_exists |-> TRUE,
     status |-> status, note |-> "warning", has_error |-> FALSE,
     has_hint |-> FALSE, missing |-> <<>>, completed |-> deps]

\* check_dependencies: the early return for a task that is already
\* COMPLETED/DONE/MERGED
CheckCompletedTask(status, deps) ==
    [success |-> TRUE, can_spawn |-> FALSE, task_exists |-> TRUE,
     status |-> status, note |-> "warning", has_error |-> FALSE,
     has_hint |-> FALSE, missing |-> <<>>, completed |-> deps]

\* CheckInProgressTask refusing an in-progress task that has dependencies
CheckInProgressTask_NeedsNoDeps(status, deps) ==
    [success |-> TRUE, can_spawn |-> deps = <<>>, task_exists |-> TRUE,
     status |-> status, note |-> "info", has_error |-> deps # <<>>,
     has_hint |-> FALSE, missing |-> deps, completed |-> <<>>]

\* check_dependencies: the early return for a task that is in progress
CheckInProgressTask(status, deps) ==
    [success |-> TRUE, can_spawn |-> TRUE, task_exists |-> TRUE,
     status |-> status, note |-> "info", has_error |-> FALSE,
     has_hint |-> FALSE, missing |-> <<>>, completed |-> <<>>]

\* CheckPendingTask deciding can_spawn on the first dependency only
CheckPendingTask_FirstDepOnly(tasks, status, deps) ==
    IF deps = <<>>
    THEN [success |-> TRUE, can_spawn |-> TRUE, task_exists |-> TRUE,
          status |-> status, note |-> "none", has_error |-> FALSE,
          has_hint |-> FALSE, missing |-> <<>>, completed |-> <<>>]
    ELSE LET missing   == CheckMissing(tasks, deps)
             completed == CheckCompleted(tasks, deps)
             can_spawn == Len(CheckMissing(tasks, <<deps[1]>>)) = 0
         IN  [success |-> TRUE, can_spawn |-> can_spawn, task_exists |-> TRUE,
              status |-> status, note |-> "none", has_error |-> ~can_spawn,
              has_hint |-> ~can_spawn, missing |-> missing,
              completed |-> completed]

\* check_dependencies: the dependency check of a PENDING/BLOCKED/ABANDONED
\* task
CheckPendingTask(tasks, status, deps) ==
    IF deps = <<>>
    THEN [success |-> TRUE, can_spawn |-> TRUE, task_exists |-> TRUE,
          status |-> status, note |-> "none", has_error |-> FALSE,
          has_hint |-> FALSE, missing |-> <<>>, completed |-> <<>>]
    ELSE LET missing   == CheckMissing(tasks, deps)
             completed == CheckCompleted(tasks, deps)
             can_spawn == Len(missing) = 0
         IN  [success |-> TRUE, can_spawn |-> can_spawn, task_exists |-> TRUE,
              status |-> status, note |-> "none", has_error |-> ~can_spawn,
              has_hint |-> ~can_spawn, missing |-> missing,
              completed |-> completed]

\* check_dependencies: the early return for a name that heads no section
\* (mutation: a name outside the plan is refused)
CheckUnknownTask_Refuses(task_name) ==
    [success |-> TRUE, can_spawn |-> FALSE, task_exists |-> FALSE,
     status |-> "", note |-> "none", has_error |-> TRUE,
     has_hint |-> FALSE, missing |-> <<task_name>>, completed |-> <<>>]

\* check_dependencies: the early return for a name that heads no section
CheckUnknownTask(task_name) ==
    [success |-> TRUE, can_spawn |-> TRUE, task_exists |-> FALSE,
     status |-> "", note |-> "warning", has_error |-> FALSE,
     has_hint |-> FALSE, missing |-> <<>>, completed |-> <<>>]

\* check_dependencies
CheckDependencies(task_name, p) ==
    LET plan_result == ParsePlan(p)
        tasks == plan_result.tasks
    IN  IF ~plan_result.success
        THEN [success |-> FALSE, can_spawn |-> FALSE, task_exists |-> FALSE,
              status |-> "", note |-> "none", has_error |-> TRUE,
              has_hint |-> FALSE, missing |-> <<>>, completed |-> <<>>]
        ELSE IF task_name \notin DOMAIN tasks
        THEN CheckUnknownTask(task_name)
        ELSE IF tasks[task_name].status \in COMPLETED_STATUSES
        THEN CheckCompletedTask(tasks[task_name].status,
                                tasks[task_name].dependencies)
        ELSE IF tasks[task_name].status \in IN_PROGRESS_STATUSES
        THEN CheckInProgressTask(tasks[task_name].status,
                                 tasks[task_name].dependencies)
        ELSE CheckPendingTask(tasks, tasks[task_name].status,
                              tasks[task_name].dependencies)

NoResult == [op |-> "none"]

PlanInit ==
    /\ LockInit
    /\ HealthIdle
    /\ AcceptIdle
    /\ plan \in PlanInputs
    /\ worktrees = {}
    /\ folders = {}
    /\ res = NoResult
    /\ seen = NoPlan

\* a call of get_unblocked_tasks (CLI `unblocked`)
QueryUnblocked ==
    /\ res' = [op |-> "get_unblocked_tasks", out |-> GetUnblockedTasks(plan)]
    /\ UNCHANGED <<plan, worktrees, folders, seen, lockVars, acceptVars, health>>

\* a call of check_dependencies (CLI `check <task_name>`)
QueryCheck ==
    \E name \in DepNames :
        /\ res' = [op |-> "check_dependencies", task_name |-> name,
                   out |-> CheckDependencies(name, plan)]
        /\ UNCHANGED <<plan, worktrees, folders, seen, lockVars, acceptVars, health>>

\* plan.md is edited outside the tools: one task's Status line changes;
\* the value a caller got from an earlier call is dropped
EditStatus ==
    /\ plan.readable
    /\ \E name \in TaskNames, s \in VALID_STATUSES :
        /\ plan.tasks[name].status # s
        /\ plan' = [plan EXCEPT !.tasks[name].status = s]
    /\ res' = NoResult
    /\ UNCHANGED <<worktrees, folders, seen, lockVars, acceptVars, health>>

PlanNext == QueryUnblocked \/ QueryCheck \/ EditStatus

SpecPlan == PlanInit /\ [][PlanNext]_vars

(***************************************************************************)
(* plan_parser.py: queries between edits of plan.md                        *)
(***************************************************************************)
\* the dependency lists of task-b in the edited plans: none, a task of the
\* plan, a name that heads no section
RereadDepLists == {<<>>, <<"task-a">>, <<"task-x">>}

\* plans in which task-a has no dependencies
RereadPlans ==
    {[readable |-> TRUE, order |-> TaskOrder, tasks |-> f] :
        f \in {g \in [TaskNames -> [status : VALID_STATUSES,
                                    dependencies : RereadDepLists]] :
                  g["task-a"].dependencies = <<>>}}

\* the plan a query works on (mutation: the one the first query read)
PlanRead_Remembered(file, first) == IF first = NoPlan THEN file ELSE first

\* the plan a query works on: parse_plan reads plan.md when it is called
PlanRead(file, first) == file

RereadInit ==
    /\ LockInit
    /\ HealthIdle
    /\ AcceptIdle
    /\ plan \in RereadPlans
    /\ worktrees = {}
    /\ folders = {}
    /\ res = NoResult
    /\ seen = NoPlan

\* the plan.md the session's first query read
FirstRead == IF seen = NoPlan THEN plan ELSE seen

\* a call of get_unblocked_tasks
RereadUnblocked ==
    /\ res' = [op |-> "get_unblocked_tasks",
               out |-> GetUnblockedTasks(PlanRead(plan, seen))]
    /\ seen' = FirstRead
    /\ UNCHANGED <<plan, worktrees, folders, lockVars, acceptVars, health>>

\* a call of check_dependencies
RereadCheck ==
    \E name \in DepNames :
        /\ res' = [op |-> "check_dependencies", task_name |-> name,
                   out |-> CheckDependencies(name, PlanRead(plan, seen))]
        /\ seen' = FirstRead
        /\ UNCHANGED <<plan, worktrees, folders, lockVars, acceptVars, health>>

\* plan.md is edited outside the tools: one task's Status line changes
RereadEdit ==
    /\ \E name \in TaskNames, s \in VALID_STATUSES :
        /\ plan.tasks[name].status # s
        /\ plan' = [plan EXCEPT !.tasks[name].status = s]
    /\ res' = NoResult
    /\ UNCHANGED <<worktrees, folders, seen, lockVars, acceptVars, health>>

RereadNext == RereadUnblocked \/ RereadCheck \/ RereadEdit

SpecReread == RereadInit /\ [][RereadNext]_vars

(***************************************************************************)
(* Batch spawning (spawn_unblocked_tasks, spawn_parallel)                  *)
(***************************************************************************)
\* longest dependency list of the plans the batch operations are run on
MaxBatchDeps == 1

\* largest max_parallel passed to spawn_parallel
MaxParallel == 2

BatchDepLists == UNION {[1..n -> DepNames] : n \in 0..MaxBatchDeps}

BatchPlanInputs ==
    {[readable |-> TRUE, order |-> TaskOrder, tasks |-> f] :
        f \in [TaskNames -> [status : VALID_STATUSES,
                             dependencies : BatchDepLists]]} \cup {NoPlan}

Take(s, n) == SubSeq(s, 1, IF n < Len(s) THEN n ELSE Len(s))

\* the tasks beyond the cap (mutation: the first of them is forgotten)
Drop_OneMore(s, n) ==
    SubSeq(s, (IF n < Len(s) THEN n ELSE Len(s)) + 2, Len(s))

Drop(s, n) == SubSeq(s, (IF n < Len(s) THEN n ELSE Len(s)) + 1, Len(s))

BatchError ==
    [success |-> FALSE, has_error |-> TRUE, spawned |-> <<>>,
     skipped |-> <<>>, failed |-> <<>>, remaining |-> <<>>,
     invoked |-> <<>>]

\* SpawnTasks reporting an unblocked task without a worktree as a failure
SpawnTasks_MissingWorktreeFails(unblocked, wts, cap, launchOk) ==
    LET spawnable == SelectSeq(unblocked, LAMBDA t : t \in wts)
        to_spawn  == Take(spawnable, cap)
        failed    == SelectSeq(unblocked, LAMBDA t :
                        t \notin wts \/ ((\E i \in DOMAIN to_spawn : to_spawn[i] = t) /\ t \notin launchOk))
    IN  [success |-> failed = <<>>,
         has_error |-> FALSE,
         spawned |-> SelectSeq(to_spawn, LAMBDA t : t \in launchOk),
         skipped |-> <<>>,
         failed |-> failed,
         remaining |-> Drop(spawnable, cap),
         invoked |-> to_spawn]

\* the spawning loop shared by spawn_unblocked_tasks and spawn_parallel:
\* `unblocked` is what the plan graph reports, wts the tasks that have a
\* worktree, cap the number of spawner invocations allowed, launchOk the
\* tasks whose launch succeeds; `invoked` lists the spawner invocations
SpawnTasks(unblocked, wts, cap, launchOk) ==
    LET spawnable == SelectSeq(unblocked, LAMBDA t : t \in wts)
        to_spawn  == Take(spawnable, cap)
        failed    == SelectSeq(to_spawn, LAMBDA t : t \notin launchOk)
    IN  [success |-> failed = <<>>,
         has_error |-> FALSE,
         spawned |-> SelectSeq(to_spawn, LAMBDA t : t \in launchOk),
         skipped |-> SelectSeq(unblocked, LAMBDA t : t \notin wts),
         failed |-> failed,
         remaining |-> Drop(spawnable, cap),
         invoked |-> to_spawn]

\* spawn_unblocked_tasks
SpawnUnblockedTasks(p, wts, launchOk) ==
    LET result == GetUnblockedTasks(p)
    IN  IF ~result.success
        THEN BatchError
        ELSE SpawnTasks(result.unblocked, wts, Len(result.unblocked), launchOk)

\* spawn_parallel
SpawnParallelTasks(max_parallel, p, wts, launchOk) ==
    LET result == GetUnblockedTasks(p)
    IN  IF max_parallel < 1 \/ ~result.success
        THEN BatchError
        ELSE SpawnTasks(result.unblocked, wts, max_parallel, launchOk)

BatchInit ==
    /\ LockInit
    /\ HealthIdle
    /\ AcceptIdle
    /\ plan \in BatchPlanInputs
    /\ folders \in SUBSET TaskNames
    /\ worktrees \in SUBSET folders
    /\ res = NoResult
    /\ seen = NoPlan

\* a call of spawn_unblocked_tasks
SpawnUnblocked ==
    /\ res = NoResult
    /\ \E launchOk \in SUBSET TaskNames :
        res' = [op |-> "spawn_unblocked_tasks",
                out |-> SpawnUnblockedTasks(plan, worktrees, launchOk)]
    /\ UNCHANGED <<plan, worktrees, folders, seen, lockVars, acceptVars, health>>

\* a call of spawn_parallel
SpawnParallel ==
    /\ res = NoResult
    /\ \E max_parallel \in 0..MaxParallel, launchOk \in SUBSET TaskNames :
        res' = [op |-> "spawn_parallel", max_parallel |-> max_parallel,
                out |-> SpawnParallelTasks(max_parallel, plan, worktrees, launchOk)]
    /\ UNCHANGED <<plan, worktrees, folders, seen, lockVars, acceptVars, health>>

\* create_all_tasks: the tasks whose creation is attempted (mutation: the
\* batch stops at the first failure)
CreateAttempts_UntilFailure(to_create, createOk) ==
    LET bad == {i \in DOMAIN to_create : to_create[i] \notin createOk}
    IN  IF bad = {} THEN to_create
        ELSE SubSeq(to_create, 1, CHOOSE i \in bad : \A j \in bad : i <= j)

\* create_all_tasks: the tasks whose creation is attempted: every missing
\* one, whatever happened to those before it
CreateAttempts(to_create, createOk) == to_create

\* create_all_tasks: the PENDING tasks of the plan are skipped when their
\* task folder exists and created otherwise; createOk are the tasks whose
\* creation succeeds
CreateAllTasks(p, flds, createOk) ==
    LET result == ParsePlan(p)
        pending == SelectSeq(result.order,
                             LAMBDA t : result.tasks[t].status = "PENDING")
        to_create == SelectSeq(pending, LAMBDA t : t \notin flds)
        attempted == CreateAttempts(to_create, createOk)
    IN  IF ~result.success
        THEN [success |-> FALSE, has_error |-> TRUE, created |-> <<>>,
              skipped |-> <<>>, failed |-> <<>>, attempted |-> <<>>]
        ELSE [success |-> \A i \in DOMAIN attempted : attempted[i] \in createOk,
              has_error |-> FALSE,
              created |-> SelectSeq(attempted, LAMBDA t : t \in createOk),
              skipped |-> SelectSeq(pending, LAMBDA t : t \in flds),
              failed |-> SelectSeq(attempted, LAMBDA t : t \notin createOk),
              attempted |-> attempted]

\* a call of create_all_tasks: a created task has its folder and worktree
CreateAll ==
    /\ res = NoResult
    /\ \E createOk \in SUBSET TaskNames :
        LET out == CreateAllTasks(plan, folders, createOk)
            made == {out.created[i] : i \in DOMAIN out.created}
        IN  /\ res' = [op |-> "create_all_tasks", folders |-> folders,
                       out |-> out]
            /\ folders' = folders \cup made
            /\ worktrees' = worktrees \cup made
    /\ UNCHANGED <<plan, seen, lockVars, acceptVars, health>>

\* the caller has consumed the returned value
BatchReturn ==
    /\ res # NoResult
    /\ res' = NoResult
    /\ UNCHANGED <<plan, worktrees, folders, seen, lockVars, acceptVars, health>>

BatchNext == SpawnUnblocked \/ SpawnParallel \/ CreateAll \/ BatchReturn

SpecBatch == BatchInit /\ [][BatchNext]_vars

(***************************************************************************)
(* WorkspaceLock (locking.py) and the operations that run under it         *)
(***************************************************************************)
\* last value of the clock
MaxTime == 2

\* age, in clock ticks, beyond which a lock counts as stale
StaleThreshold == 1

\* the `timeout` of a blocking acquire, in clock ticks
LockTimeout == 1

\* operations that take the workspace lock around their git steps
LockedOps == {"sync_all_worktrees", "accept_task", "create_task"}

\* the commands each process issues
Commands ==
    [p \in Procs |->
        IF p = "p1" THEN {"sync_all_worktrees", "create_task"}
        ELSE IF p = "p2" THEN {"accept_task"}
        ELSE {"rebase", "merge", "delete-branch"}]

\* git_ops.py command line: rebase_branch, merge_branch and delete_branch
\* called directly from __main__
CliOps == {"rebase", "merge", "delete-branch"}

Inodes == 1..(Cardinality(Procs) + 1)

Alive == {p \in Procs : pc[p] # "dead"}

\* an inode number no directory entry and no descriptor refers to
FreshInode ==
    CHOOSE i \in Inodes :
        /\ i # lockFile
        /\ \A p \in Procs : fd[p] # i
        /\ \A j \in Inodes :
            (j # lockFile /\ \A p \in Procs : fd[p] # j) => i <= j

\* IsStale without the liveness test of the recorded pid
IsStale_AgeOnly(inf, t, living) ==
    /\ inf # NoInfo
    /\ t - inf.acquired_at > StaleThreshold

\* a lock is stale if its holder process is no longer running or its
\* acquisition timestamp exceeds the staleness threshold
IsStale(inf, t, living) ==
    /\ inf # NoInfo
    /\ \/ inf.pid \notin living
       \/ t - inf.acquired_at > StaleThreshold

\* an operation starts: one that takes the lock enters acquire
StartLocked(p) ==
    /\ pc[p] = "idle"
    /\ \E o \in Commands[p] \cap LockedOps, b \in BOOLEAN :
        /\ op' = [op EXCEPT ![p] = o]
        /\ blocking' = [blocking EXCEPT ![p] = b]
        /\ started' = [started EXCEPT ![p] = IF b THEN now ELSE 0]
    /\ pc' = [pc EXCEPT ![p] = "acq_check"]
    /\ solo' = [q \in Procs |-> FALSE]
    /\ UNCHANGED <<fd, locked, lockFile, info, now, lockErr, planVars, acceptVars, health>>

\* git_ops.py __main__: `rebase`, `merge` and `delete-branch` go straight
\* to their git commands
StartCli(p) ==
    /\ pc[p] = "idle"
    /\ \E o \in Commands[p] \cap CliOps : op' = [op EXCEPT ![p] = o]
    /\ pc' = [pc EXCEPT ![p] = "git"]
    /\ UNCHANGED <<blocking, fd, locked, started, solo, lockFile, info, now,
                   lockErr, planVars, acceptVars, health>>

\* acquire: read the sidecar and decide whether the lock is stale
AcquireCheckStale(p) ==
    /\ pc[p] = "acq_check"
    /\ pc' = [pc EXCEPT ![p] =
                IF IsStale(info, now, Alive) THEN "acq_unlink_lock"
                                             ELSE "acq_open"]
    /\ solo' = [solo EXCEPT ![p] =
                /\ info # NoInfo
                /\ info.pid \notin Alive
                /\ \A q \in Procs \ {p} :
                    pc[q] \in {"idle", "dead"} \/ op[q] \in CliOps]
    /\ UNCHANGED <<op, blocking, fd, locked, started, lockFile, info, now,
                   lockErr, planVars, acceptVars, health>>

\* acquire, reclaiming a stale lock: delete the lock file
AcquireUnlinkLock(p) ==
    /\ pc[p] = "acq_unlink_lock"
    /\ lockFile' = 0
    /\ pc' = [pc EXCEPT ![p] = "acq_unlink_info"]
    /\ UNCHANGED <<op, blocking, fd, locked, started, solo, info, now,
                   lockErr, planVars, acceptVars, health>>

\* acquire, reclaiming a stale lock: delete the sidecar
AcquireUnlinkInfo(p) ==
    /\ pc[p] = "acq_unlink_info"
    /\ info' = NoInfo
    /\ pc' = [pc EXCEPT ![p] = "acq_open"]
    /\ UNCHANGED <<op, blocking, fd, locked, started, solo, lockFile, now,
                   lockErr, planVars, acceptVars, health>>

\* acquire: open-or-create the lock file
AcquireOpen(p) ==
    /\ pc[p] = "acq_open"
    /\ LET i == IF lockFile = 0 THEN FreshInode ELSE lockFile
       IN  /\ lockFile' = i
           /\ fd' = [fd EXCEPT ![p] = i]
    /\ pc' = [pc EXCEPT ![p] = "acq_flock"]
    /\ UNCHANGED <<op, blocking, locked, started, solo, info, now, lockErr, planVars, acceptVars, health>>

\* the OS grants an exclusive lock on an inode to one open file at a time
FlockFree(p) == \A q \in Procs \ {p} : ~(locked[q] /\ fd[q] = fd[p])

\* acquire: the non-blocking exclusive lock succeeded
AcquireFlockOk(p) ==
    /\ pc[p] = "acq_flock"
    /\ FlockFree(p)
    /\ locked' = [locked EXCEPT ![p] = TRUE]
    /\ pc' = [pc EXCEPT ![p] = "acq_write_info"]
    /\ UNCHANGED <<op, blocking, fd, started, solo, lockFile, info, now,
                   lockErr, planVars, acceptVars, health>>

\* the processes that hold the OS-level lock p's attempt ran into
LockedBy(p) == {q \in Procs \ {p} : locked[q] /\ fd[q] = fd[p]}

\* the error of a failed acquire: its kind and the holder metadata, which
\* is what the sidecar contains when the attempt fails
LockError(kind, p) ==
    [kind |-> kind, holder |-> info, locked_by |-> LockedBy(p)]

\* the lock is held by someone else (mutation: a blocking acquire goes on
\* sleeping and retrying whatever time has passed)
AcquireFlockBusy_NoTimeout(p) ==
    /\ pc[p] = "acq_flock"
    /\ ~FlockFree(p)
    /\ fd' = [fd EXCEPT ![p] = 0]
    /\ pc' = [pc EXCEPT ![p] = IF ~blocking[p] THEN "lock_held"
                                              ELSE "acq_sleep"]
    /\ lockErr' = [lockErr EXCEPT ![p] =
                IF ~blocking[p] THEN LockError("LockHeld", p)
                ELSE NoLockError]
    /\ UNCHANGED <<op, blocking, locked, started, solo, lockFile, info, now,
                   planVars, acceptVars, health>>

\* acquire: the lock is held by someone else; the descriptor is closed and
\* the call fails (LockHeld, LockTimeout) or sleeps before the next attempt
AcquireFlockBusy(p) ==
    /\ pc[p] = "acq_flock"
    /\ ~FlockFree(p)
    /\ fd' = [fd EXCEPT ![p] = 0]
    /\ pc' = [pc EXCEPT ![p] =
                IF ~blocking[p] THEN "lock_held"
                ELSE IF now - started[p] >= LockTimeout THEN "lock_timeout"
                ELSE "acq_sleep"]
    /\ lockErr' = [lockErr EXCEPT ![p] =
                IF ~blocking[p] THEN LockError("LockHeld", p)
                ELSE IF now - started[p] >= LockTimeout
                     THEN LockError("LockTimeout", p)
                ELSE NoLockError]
    /\ UNCHANGED <<op, blocking, locked, started, solo, lockFile, info, now,
                   planVars, acceptVars, health>>

\* acquire: the sleep between two attempts is over
AcquireRetry(p) ==
    /\ pc[p] = "acq_sleep"
    /\ pc' = [pc EXCEPT ![p] = "acq_open"]
    /\ UNCHANGED <<op, blocking, fd, locked, started, solo, lockFile, info,
                   now, lockErr, planVars, acceptVars, health>>

\* acquire: write the sidecar {pid, operation, acquired_at}; the lock is
\* acquired and the operation enters its git steps
AcquireWriteInfo(p) ==
    /\ pc[p] = "acq_write_info"
    /\ info' = [pid |-> p, operation |-> op[p], acquired_at |-> now]
    /\ pc' = [pc EXCEPT ![p] = "git"]
    /\ blocking' = [blocking EXCEPT ![p] = FALSE]
    /\ started' = [started EXCEPT ![p] = 0]
    /\ UNCHANGED <<op, fd, locked, solo, lockFile, now, lockErr, planVars, acceptVars, health>>

\* the lock error aborts the calling operation: no git step is run
LockErrorReturn(p) ==
    /\ pc[p] \in {"lock_held", "lock_timeout"}
    /\ pc' = [pc EXCEPT ![p] = "idle"]
    /\ op' = [op EXCEPT ![p] = "none"]
    /\ solo' = [solo EXCEPT ![p] = FALSE]
    /\ blocking' = [blocking EXCEPT ![p] = FALSE]
    /\ started' = [started EXCEPT ![p] = 0]
    /\ lockErr' = [lockErr EXCEPT ![p] = NoLockError]
    /\ UNCHANGED <<fd, locked, lockFile, info, now, planVars, acceptVars, health>>

\* the git commands of the operation (fetch, rebase, switch, merge, ...)
GitSteps(p) ==
    /\ pc[p] = "git"
    /\ IF op[p] \in LockedOps
       THEN /\ pc' = [pc EXCEPT ![p] = "rel_unlock"]
            /\ op' = op
       ELSE /\ pc' = [pc EXCEPT ![p] = "idle"]
            /\ op' = [op EXCEPT ![p] = "none"]
    /\ solo' = [solo EXCEPT ![p] = FALSE]
    /\ UNCHANGED <<blocking, fd, locked, started, lockFile, info, now,
                   lockErr, planVars, acceptVars, health>>

\* release: unlock the OS-level lock and close the descriptor
ReleaseUnlock(p) ==
    /\ pc[p] = "rel_unlock"
    /\ locked' = [locked EXCEPT ![p] = FALSE]
    /\ fd' = [fd EXCEPT ![p] = 0]
    /\ pc' = [pc EXCEPT ![p] = "rel_unlink_lock"]
    /\ UNCHANGED <<op, blocking, started, solo, lockFile, info, now, lockErr, planVars, acceptVars, health>>

\* release: delete the lock file
ReleaseUnlinkLock(p) ==
    /\ pc[p] = "rel_unlink_lock"
    /\ lockFile' = 0
    /\ pc' = [pc EXCEPT ![p] = "rel_unlink_info"]
    /\ UNCHANGED <<op, blocking, fd, locked, started, solo, info, now,
                   lockErr, planVars, acceptVars, health>>

\* release: delete the sidecar; the operation returns
ReleaseUnlinkInfo(p) ==
    /\ pc[p] = "rel_unlink_info"
    /\ info' = NoInfo
    /\ pc' = [pc EXCEPT ![p] = "idle"]
    /\ op' = [op EXCEPT ![p] = "none"]
    /\ UNCHANGED <<blocking, fd, locked, started, solo, lockFile, now,
                   lockErr, planVars, acceptVars, health>>

\* a process dies: the OS closes its descriptors, which drops its lock;
\* the lock file and the sidecar stay behind
Crash(p) ==
    /\ pc[p] \notin {"idle", "dead"}
    /\ op[p] \in LockedOps
    /\ pc' = [pc EXCEPT ![p] = "dead"]
    /\ op' = [op EXCEPT ![p] = "none"]
    /\ blocking' = [blocking EXCEPT ![p] = FALSE]
    /\ started' = [started EXCEPT ![p] = 0]
    /\ locked' = [locked EXCEPT ![p] = FALSE]
    /\ fd' = [fd EXCEPT ![p] = 0]
    /\ solo' = [solo EXCEPT ![p] = FALSE]
    /\ lockErr' = [lockErr EXCEPT ![p] = NoLockError]
    /\ UNCHANGED <<lockFile, info, now, planVars, acceptVars, health>>

\* time passes
Tick ==
    /\ now < MaxTime
    /\ now' = now + 1
    /\ UNCHANGED <<pc, op, blocking, fd, locked, started, solo, lockFile,
                   info, lockErr, planVars, acceptVars, health>>

Init ==
    /\ LockInit
    /\ HealthIdle
    /\ AcceptIdle
    /\ plan = NoPlan
    /\ worktrees = {}
    /\ folders = {}
    /\ res = NoResult
    /\ seen = NoPlan

Next ==
    \/ \E p \in Procs : StartLocked(p)
    \/ \E p \in Procs : StartCli(p)
    \/ \E p \in Procs : AcquireCheckStale(p)
    \/ \E p \in Procs : AcquireUnlinkLock(p)
    \/ \E p \in Procs : AcquireUnlinkInfo(p)
    \/ \E p \in Procs : AcquireOpen(p)
    \/ \E p \in Procs : AcquireFlockOk(p)
    \/ \E p \in Procs : AcquireFlockBusy(p)
    \/ \E p \in Procs : AcquireRetry(p)
    \/ \E p \in Procs : AcquireWriteInfo(p)
    \/ \E p \in Procs : LockErrorReturn(p)
    \/ \E p \in Procs : GitSteps(p)
    \/ \E p \in Procs : ReleaseUnlock(p)
    \/ \E p \in Procs : ReleaseUnlinkLock(p)
    \/ \E p \in Procs : ReleaseUnlinkInfo(p)
    \/ \E p \in Procs : Crash(p)
    \/ Tick

Spec == Init /\ [][Next]_vars

\* the steps of p's acquire: a running process keeps executing them
AcquireStep(p) ==
    \/ AcquireCheckStale(p)
    \/ AcquireUnlinkLock(p)
    \/ AcquireUnlinkInfo(p)
    \/ AcquireOpen(p)
    \/ AcquireFlockOk(p)
    \/ AcquireFlockBusy(p)
    \/ AcquireRetry(p)
    \/ AcquireWriteInfo(p)

\* the same processes, where a process inside acquire is scheduled again
\* and again and the clock keeps running
SpecFair ==
    /\ Spec
    /\ WF_vars(Tick)
    /\ \A p \in Procs : WF_vars(AcquireStep(p))

(***************************************************************************)
(* git_ops.py: the git operations an accept transaction is built from      *)
(***************************************************************************)
\* `git switch <branch>` in the primary clone: git refuses to switch
\* while a merge is in progress
GitSwitch(r, branch) ==
    IF r.merging
    THEN [success |-> FALSE, repo |-> r]
    ELSE [success |-> TRUE, repo |-> [r EXCEPT !.head = branch]]

\* outcomes of `git rebase <target>` in the worktree: done; stopped at a
\* commit with output that mentions a conflict; stopped at a commit with
\* output that mentions none (a pick that would overwrite an untracked
\* file); refused before anything was replayed
RebaseOutcomes == {"ok", "conflict", "stopped", "error"}

\* rebase_branch: on success the branch is replayed onto main (w1); a
\* conflict stops the rebase with HEAD on main's commit, and only
\* abort_on_conflict runs `git rebase --abort`; a stop whose output does
\* not mention a conflict is never aborted; a refused rebase leaves the
\* worktree as it was
RebaseBranch(r, outcome, abort_on_conflict) ==
    CASE outcome = "ok" ->
           [success |-> TRUE, conflicts |-> FALSE, aborted |-> FALSE,
            repo |-> [r EXCEPT !.wt = "w1"]]
      [] outcome = "conflict" /\ abort_on_conflict ->
           [success |-> FALSE, conflicts |-> TRUE, aborted |-> TRUE,
            repo |-> r]
      [] outcome = "conflict" /\ ~abort_on_conflict ->
           [success |-> FALSE, conflicts |-> TRUE, aborted |-> FALSE,
            repo |-> [r EXCEPT !.wt = r.main, !.rebasing = TRUE]]
      [] outcome = "stopped" ->
           [success |-> FALSE, conflicts |-> FALSE, aborted |-> FALSE,
            repo |-> [r EXCEPT !.wt = r.main, !.rebasing = TRUE]]
      [] OTHER ->
           [success |-> FALSE, conflicts |-> FALSE, aborted |-> FALSE,
            repo |-> r]

\* outcomes of `git merge --no-ff <source>`
MergeOutcomes == {"ok", "conflict", "error"}

\* merge_branch: switches to the target branch, then merges; success moves
\* the target to the merge commit, a conflict leaves the merge in progress
\* and the target ref where it was
MergeBranch(r, target_branch, outcome) ==
    LET sw == GitSwitch(r, target_branch) IN
    IF ~sw.success
    THEN [success |-> FALSE, conflicts |-> FALSE, repo |-> r]
    ELSE CASE outcome = "ok" ->
                [success |-> TRUE, conflicts |-> FALSE,
                 repo |-> [sw.repo EXCEPT !.main = "mc"]]
           [] outcome = "conflict" ->
                [success |-> FALSE, conflicts |-> TRUE,
                 repo |-> [sw.repo EXCEPT !.merging = TRUE]]
           [] OTHER ->
                [success |-> FALSE, conflicts |-> FALSE, repo |-> sw.repo]

\* push_branch: `git push origin <branch>`
PushBranch(r, ok) ==
    IF ok
    THEN [success |-> TRUE, repo |-> [r EXCEPT !.remote_main = r.main]]
    ELSE [success |-> FALSE, repo |-> r]

\* remove_worktree: `git worktree remove <path> [--force]`
RemoveWorktree(r, ok) ==
    IF ok
    THEN [success |-> TRUE, repo |-> [r EXCEPT !.wt_exists = FALSE]]
    ELSE [success |-> FALSE, repo |-> r]

\* delete_branch without delete_remote: `git branch -d|-D <branch>`; git
\* refuses to delete a branch that a worktree still has checked out
DeleteBranch(r, ok) ==
    IF ok /\ ~r.wt_exists
    THEN [success |-> TRUE, repo |-> [r EXCEPT !.local_branch = FALSE]]
    ELSE [success |-> FALSE, repo |-> r]

\* `git push origin --delete <branch>`
DeleteRemoteBranch(r, ok) ==
    IF ok
    THEN [success |-> TRUE, repo |-> [r EXCEPT !.remote_branch = FALSE]]
    ELSE [success |-> FALSE, repo |-> r]

(***************************************************************************)
(* The accept transaction                                                  *)
(***************************************************************************)
\* the steps up to the point of no return, in their order
Steps == <<"checkpoint", "rebase", "test_rebase", "switch", "merge",
           "test_merge", "push">>

\* results of the test collaborator
TestResults == {"passed", "failed", "timeout"}

\* the test gate (mutation: a timed-out run counts as a pass)
TestPassed_TimeoutPasses(result) == result \in {"passed", "timeout"}

\* the test gate: any result other than a pass fails the transaction
TestPassed(result) == result = "passed"

\* branches the operator may have checked out in the primary clone
Branches == {"main", "develop"}

\* abort any in-flight rebase; hard-reset the worktree to its checkpoint
RollbackRebase(r, cp) ==
    [success |-> TRUE, repo |-> [r EXCEPT !.rebasing = FALSE, !.wt = cp.wt]]

\* switch back to the originally checked-out branch
RollbackSwitch(r, cp) == GitSwitch(r, cp.branch)

\* rollback of the merge (mutation: main is left where it is)
RollbackMerge_KeepsMain(r, cp) ==
    [success |-> TRUE, repo |-> [r EXCEPT !.merging = FALSE]]

\* hard-reset the main branch ref to the checkpointed main commit
RollbackMerge(r, cp) ==
    [success |-> TRUE, repo |-> [r EXCEPT !.main = cp.main, !.merging = FALSE]]

\* the rollback procedure bound to a step
StepRollback(step, r, cp) ==
    CASE step \in {"rebase", "test_rebase"} -> RollbackRebase(r, cp)
      [] step = "switch" -> RollbackSwitch(r, cp)
      [] step \in {"merge", "test_merge", "push"} -> RollbackMerge(r, cp)
      [] OTHER -> [success |-> TRUE, repo |-> r]

\* a step completed: it joins the completed steps, the next one is due
StepCompleted(t, step, next) ==
    [t EXCEPT !.completed = Append(@, step), !.pc = next]

\* a step failed (mutation: the last completed step is not undone)
StepFailed_SkipsLast(t, step) ==
    [t EXCEPT !.failed = step,
              !.undo = SubSeq(t.completed, 1, Len(t.completed) - 1),
              !.pc = "rollback"]

\* a step failed: the completed steps are to be undone, last one first
StepFailed(t, step) ==
    [t EXCEPT !.failed = step, !.undo = t.completed, !.pc = "rollback"]

\* what follows the post-merge tests: the optional push, else the cleanup
AfterTestMerge(t) == IF t.push THEN "push" ELSE "remove_worktree"

\* what follows the local branch deletion: the optional remote deletion
AfterDeleteLocal(t) == IF t.delete_remote THEN "delete_remote" ELSE "return"

\* a cleanup step failed after the point of no return (mutation: fatal)
CleanupFailed_RollsBack(t, what) ==
    [t EXCEPT !.failed = what, !.rolled_back = TRUE]

\* a cleanup step failed after the point of no return: a warning, no more
CleanupFailed(t, what) ==
    [t EXCEPT !.warnings = Append(@, what)]

\* the transactions that may be started: the operator's checked-out
\* branch, and the push and delete_remote options
AcceptInit ==
    /\ LockInit
    /\ HealthIdle
    /\ plan = NoPlan
    /\ worktrees = {}
    /\ folders = {}
    /\ res = NoResult
    /\ seen = NoPlan
    /\ \E b \in Branches : repo = [CleanRepo EXCEPT !.head = b]
    /\ \E push \in BOOLEAN, delete_remote \in BOOLEAN :
          tx = [NoTx EXCEPT !.pc = "checkpoint", !.push = push,
                            !.delete_remote = delete_remote]

\* Checkpoint: record main's commit, the worktree's commit and the branch
\* checked out in the primary clone
Checkpoint ==
    /\ tx.pc = "checkpoint"
    /\ tx' = StepCompleted(
                [tx EXCEPT !.checkpoint = [main |-> repo.main, wt |-> repo.wt,
                                           branch |-> repo.head]],
                "checkpoint", "rebase")
    /\ UNCHANGED <<repo, planVars, lockVars, health>>

\* Rebase sub-branch: rebase the task's branch onto main in the worktree
Rebase ==
    /\ tx.pc = "rebase"
    /\ \E outcome \in RebaseOutcomes :
          LET result == RebaseBranch(repo, outcome, FALSE) IN
          /\ repo' = result.repo
          /\ tx' = IF result.success
                   THEN StepCompleted(tx, "rebase", "test_rebase")
                   ELSE StepFailed(tx, "rebase")
    /\ UNCHANGED <<planVars, lockVars, health>>

\* Test after rebase: run the test collaborator against the worktree
TestAfterRebase ==
    /\ tx.pc = "test_rebase"
    /\ \E result \in TestResults :
          LET t == [tx EXCEPT !.tests = @ + 1,
                              !.test_log = Append(@, result)] IN
          tx' = IF TestPassed(result)
                THEN StepCompleted(t, "test_rebase", "switch")
                ELSE StepFailed(t, "test_rebase")
    /\ UNCHANGED <<repo, planVars, lockVars, health>>

\* Switch to main: check out main in the primary clone; the checkout can
\* be refused (local changes), which changes nothing
SwitchToMain ==
    /\ tx.pc = "switch"
    /\ \E refused \in BOOLEAN :
          LET result == IF refused
                        THEN [success |-> FALSE, repo |-> repo]
                        ELSE GitSwitch(repo, "main") IN
          /\ repo' = result.repo
          /\ tx' = IF result.success
                   THEN StepCompleted(tx, "switch", "merge")
                   ELSE StepFailed(tx, "switch")
    /\ UNCHANGED <<planVars, lockVars, health>>

\* Merge sub-branch: no-fast-forward merge of the task's branch into main
Merge ==
    /\ tx.pc = "merge"
    /\ \E outcome \in MergeOutcomes :
          LET result == MergeBranch(repo, "main", outcome) IN
          /\ repo' = result.repo
          /\ tx' = IF result.success
                   THEN StepCompleted(tx, "merge", "test_merge")
                   ELSE StepFailed(tx, "merge")
    /\ UNCHANGED <<planVars, lockVars, health>>

\* Test after merge: run the test collaborator against the merged state
TestAfterMerge ==
    /\ tx.pc = "test_merge"
    /\ \E result \in TestResults :
          LET t == [tx EXCEPT !.tests = @ + 1,
                              !.test_log = Append(@, result)] IN
          tx' = IF TestPassed(result)
                THEN StepCompleted(t, "test_merge", AfterTestMerge(t))
                ELSE StepFailed(t, "test_merge")
    /\ UNCHANGED <<repo, planVars, lockVars, health>>

\* Push (optional): push main to the remote; success is the point of no
\* return
Push ==
    /\ tx.pc = "push"
    /\ \E ok \in BOOLEAN :
          LET result == PushBranch(repo, ok) IN
          /\ repo' = result.repo
          /\ tx' = IF result.success
                   THEN StepCompleted([tx EXCEPT !.pushed = TRUE],
                                      "push", "remove_worktree")
                   ELSE StepFailed(tx, "push")
    /\ UNCHANGED <<planVars, lockVars, health>>

\* rollback, first part: the last completed step not yet undone runs its
\* bound rollback procedure; a failure is collected
RollbackStep ==
    /\ tx.pc = "rollback"
    /\ tx.undo # <<>>
    /\ LET step == tx.undo[Len(tx.undo)]
           result == StepRollback(step, repo, tx.checkpoint) IN
       /\ repo' = result.repo
       /\ tx' = [tx EXCEPT
                   !.undo = SubSeq(@, 1, Len(@) - 1),
                   !.rollback_log = Append(@, step),
                   !.rollback_errors =
                       IF result.success THEN @ ELSE Append(@, step)]
    /\ UNCHANGED <<planVars, lockVars, health>>

\* rollback, second part: unconditionally try to restore the originally
\* checked-out branch
RollbackRestoreBranch ==
    /\ tx.pc = "rollback"
    /\ tx.undo = <<>>
    /\ LET result == GitSwitch(repo, tx.checkpoint.branch) IN
       /\ repo' = result.repo
       /\ tx' = [tx EXCEPT
                   !.pc = "reset_main",
                   !.rollback_errors =
                       IF result.success THEN @
                       ELSE Append(@, "restore_branch")]
    /\ UNCHANGED <<planVars, lockVars, health>>

\* rollback, last part: if the main ref was advanced, force it back to the
\* checkpoint; the transaction returns its failure
RollbackResetMain ==
    /\ tx.pc = "reset_main"
    /\ repo' = IF repo.main # tx.checkpoint.main
               THEN RollbackMerge(repo, tx.checkpoint).repo
               ELSE repo
    /\ tx' = [tx EXCEPT !.pc = "done", !.success = FALSE,
                        !.rolled_back = (tx.rollback_errors = <<>>)]
    /\ UNCHANGED <<planVars, lockVars, health>>

\* Remove worktree: best effort, force-remove on failure
CleanupRemoveWorktree ==
    /\ tx.pc = "remove_worktree"
    /\ \E ok \in BOOLEAN, force_ok \in BOOLEAN :
          LET first == RemoveWorktree(repo, ok)
              result == IF first.success THEN first
                        ELSE RemoveWorktree(repo, force_ok) IN
          /\ repo' = result.repo
          /\ tx' = [(IF result.success THEN tx
                     ELSE CleanupFailed(tx, "remove_worktree"))
                    EXCEPT !.pc = "delete_local"]
    /\ UNCHANGED <<planVars, lockVars, health>>

\* Delete local branch: best effort, force-delete on failure
CleanupDeleteLocal ==
    /\ tx.pc = "delete_local"
    /\ \E ok \in BOOLEAN, force_ok \in BOOLEAN :
          LET first == DeleteBranch(repo, ok)
              result == IF first.success THEN first
                        ELSE DeleteBranch(repo, force_ok) IN
          /\ repo' = result.repo
          /\ tx' = [(IF result.success THEN tx
                     ELSE CleanupFailed(tx, "delete_local"))
                    EXCEPT !.pc = AfterDeleteLocal(tx)]
    /\ UNCHANGED <<planVars, lockVars, health>>

\* Delete remote branch (optional): best effort
CleanupDeleteRemote ==
    /\ tx.pc = "delete_remote"
    /\ \E ok \in BOOLEAN :
          LET result == DeleteRemoteBranch(repo, ok) IN
          /\ repo' = result.repo
          /\ tx' = [(IF result.success THEN tx
                     ELSE CleanupFailed(tx, "delete_remote"))
                    EXCEPT !.pc = "return"]
    /\ UNCHANGED <<planVars, lockVars, health>>

\* the transaction returns after the cleanup
AcceptReturn ==
    /\ tx.pc = "return"
    /\ tx' = [tx EXCEPT !.pc = "done", !.success = (tx.failed = "none")]
    /\ UNCHANGED <<repo, planVars, lockVars, health>>

AcceptNext ==
    \/ Checkpoint
    \/ Rebase
    \/ TestAfterRebase
    \/ SwitchToMain
    \/ Merge
    \/ TestAfterMerge
    \/ Push
    \/ RollbackStep
    \/ RollbackRestoreBranch
    \/ RollbackResetMain
    \/ CleanupRemoveWorktree
    \/ CleanupDeleteLocal
    \/ CleanupDeleteRemote
    \/ AcceptReturn

SpecAccept == AcceptInit /\ [][AcceptNext]_vars

(***************************************************************************)
(* HealthMonitor (health_check.py): a task's sub-agent status record       *)
(***************************************************************************)
NON_TERMINAL_STATUSES == {"STARTING", "RUNNING"}

TERMINAL_STATUSES == {"COMPLETED", "FAILED"}

\* free-text progress descriptions a caller passes
ProgressTexts == {"working", "finished"}

\* optional error strings a caller passes
ErrorTexts == {"none", "crashed"}

\* write_status: loads the existing record if there is one (started_at is
\* preserved), else starts a fresh one; sets the given status, progress
\* and error; always refreshes last_heartbeat; sets completed_at only on
\* the first transition into a terminal state
WriteStatus(rec, status, progress, error, t) ==
    LET existing == IF rec = NoStatus
                    THEN [NoStatus EXCEPT !.started_at = <<t>>]
                    ELSE rec
    IN  [status |-> status, progress |-> progress, error |-> error,
         started_at |-> existing.started_at,
         last_heartbeat |-> <<t>>,
         completed_at |-> IF status \in TERMINAL_STATUSES
                             /\ existing.completed_at = <<>>
                          THEN <<t>>
                          ELSE existing.completed_at]

HealthInit ==
    /\ LockInit
    /\ HealthIdle
    /\ AcceptIdle
    /\ plan = NoPlan
    /\ worktrees = {}
    /\ folders = {}
    /\ res = NoResult
    /\ seen = NoPlan

\* mark_started: the record is created, status STARTING
MarkStarted ==
    /\ health' = WriteStatus(health, "STARTING", "working", "none", now)
    /\ UNCHANGED <<planVars, lockVars, acceptVars>>

\* mark_running: status RUNNING right after a successful launch
MarkRunning ==
    /\ health # NoStatus
    /\ health' = WriteStatus(health, "RUNNING", "working", "none", now)
    /\ UNCHANGED <<planVars, lockVars, acceptVars>>

\* heartbeat(task, progress): sets status RUNNING, refreshes the timestamp
Heartbeat ==
    /\ health # NoStatus
    /\ \E progress \in ProgressTexts :
          health' = WriteStatus(health, "RUNNING", progress, "none", now)
    /\ UNCHANGED <<planVars, lockVars, acceptVars>>

\* mark_completed
MarkCompleted ==
    /\ health # NoStatus
    /\ health' = WriteStatus(health, "COMPLETED", "finished", "none", now)
    /\ UNCHANGED <<planVars, lockVars, acceptVars>>

\* mark_failed(error)
MarkFailed ==
    /\ health # NoStatus
    /\ \E error \in ErrorTexts \ {"none"} :
          health' = WriteStatus(health, "FAILED", health.progress, error, now)
    /\ UNCHANGED <<planVars, lockVars, acceptVars>>

\* cleanup: the record is deleted explicitly
CleanupStatus ==
    /\ health # NoStatus
    /\ health' = NoStatus
    /\ UNCHANGED <<planVars, lockVars, acceptVars>>

\* time passes between two calls
HealthTick ==
    /\ now < MaxTime
    /\ now' = now + 1
    /\ UNCHANGED <<pc, op, blocking, fd, locked, started, solo, lockFile,
                   info, lockErr, planVars, acceptVars, health>>

HealthNext ==
    \/ MarkStarted
    \/ MarkRunning
    \/ Heartbeat
    \/ MarkCompleted
    \/ MarkFailed
    \/ CleanupStatus
    \/ HealthTick

SpecHealth == HealthInit /\ [][HealthNext]_vars

(***************************************************************************)
(* Properties of the plan graph                                            *)
(***************************************************************************)
InSeq(x, s) == \E i \in DOMAIN s : s[i] = x

\* the dependency named d is a task of the plan in a completed-class status
DepSatisfied(tasks, d) ==
    /\ d \in DOMAIN tasks
    /\ tasks[d].status \in {"COMPLETED", "DONE", "MERGED"}

AllDepsSatisfied(tasks, deps) ==
    \A i \in DOMAIN deps : DepSatisfied(tasks, deps[i])

\* the dependencies, in declared order, that are not satisfied
ExpectedMissing(tasks, deps) ==
    SelectSeq(deps, LAMBDA d : ~DepSatisfied(tasks, d))

UnblockedReturned == res.op = "get_unblocked_tasks" /\ res.out.success

CheckReturned(name) ==
    res.op = "check_dependencies" /\ res.task_name = name /\ res.out.success

\* C4 as stated: EVERY task of the plan, whatever its status, is in
\* `unblocked` iff its dependency list is empty or all of its members are
\* completed-class.
C4_UnblockedIffDepsMet_AnyStatus ==
    UnblockedReturned =>
        \A t \in DOMAIN plan.tasks :
            InSeq(t, res.out.unblocked)
                <=> AllDepsSatisfied(plan.tasks, plan.tasks[t].dependencies)

\* C4 amended: every task of the plan whose status is PENDING or BLOCKED is
\* in `unblocked` iff its dependency list is empty or all of its members are
\* tasks of the plan in a completed-class status.
C4_UnblockedIffDepsMet ==
    UnblockedReturned =>
        \A t \in DOMAIN plan.tasks :
            plan.tasks[t].status \in {"PENDING", "BLOCKED"} =>
                (InSeq(t, res.out.unblocked)
                    <=> AllDepsSatisfied(plan.tasks, plan.tasks[t].dependencies))

\* C4 witness: a PENDING task with a non-empty dependency list, all of it
\* completed, was reported unblocked, next to a BLOCKED-status task that was
\* not.
C4_Witness ==
    /\ UnblockedReturned
    /\ \E t \in DOMAIN plan.tasks :
        /\ plan.tasks[t].status = "PENDING"
        /\ plan.tasks[t].dependencies # <<>>
        /\ AllDepsSatisfied(plan.tasks, plan.tasks[t].dependencies)
        /\ InSeq(t, res.out.unblocked)

\* C7: the `missing` list of every blocked task of get_unblocked_tasks, and
\* of check_dependencies on a PENDING or BLOCKED task, is exactly the
\* task's dependencies, in declared order, that are absent from the plan or
\* not completed-class; an absent dependency is always in it and the task is
\* then neither unblocked nor spawnable.
C7_MissingIsExact ==
    /\ UnblockedReturned =>
        \A i \in DOMAIN res.out.blockedNames :
            LET t == res.out.blockedNames[i]
                deps == plan.tasks[t].dependencies
            IN  /\ res.out.blocked[i].missing = ExpectedMissing(plan.tasks, deps)
                /\ res.out.blocked[i].missing # <<>>
    /\ UnblockedReturned =>
        \A t \in DOMAIN plan.tasks :
            (/\ plan.tasks[t].status \in {"PENDING", "BLOCKED"}
             /\ \E i \in DOMAIN plan.tasks[t].dependencies :
                    plan.tasks[t].dependencies[i] \notin DOMAIN plan.tasks)
            => /\ ~InSeq(t, res.out.unblocked)
               /\ \E i \in DOMAIN res.out.blockedNames :
                    /\ res.out.blockedNames[i] = t
                    /\ \A j \in DOMAIN plan.tasks[t].dependencies :
                        plan.tasks[t].dependencies[j] \notin DOMAIN plan.tasks
                            => InSeq(plan.tasks[t].dependencies[j],
                                     res.out.blocked[i].missing)
    /\ \A t \in DOMAIN plan.tasks :
        (CheckReturned(t) /\ plan.tasks[t].status \in {"PENDING", "BLOCKED"})
        => /\ res.out.missing
                = ExpectedMissing(plan.tasks, plan.tasks[t].dependencies)
           /\ \A j \in DOMAIN plan.tasks[t].dependencies :
                plan.tasks[t].dependencies[j] \notin DOMAIN plan.tasks
                    => /\ InSeq(plan.tasks[t].dependencies[j], res.out.missing)
                       /\ ~res.out.can_spawn

\* C7 witness: a blocked task with two dependencies, the first completed and
\* the second absent from the plan, reported with the absent one missing.
C7_Witness ==
    /\ UnblockedReturned
    /\ \E i \in DOMAIN res.out.blockedNames :
        LET deps == plan.tasks[res.out.blockedNames[i]].dependencies
        IN  /\ Len(deps) = 2
            /\ DepSatisfied(plan.tasks, deps[1])
            /\ deps[2] \notin DOMAIN plan.tasks
            /\ res.out.blocked[i].missing = <<deps[2]>>

C9_CanSpawnIffDepsMet ==
    \A t \in DOMAIN plan.tasks :
        (/\ CheckReturned(t)
         /\ plan.tasks[t].status \notin {"COMPLETED", "DONE", "MERGED"}
         /\ plan.tasks[t].status \notin {"IN_PROGRESS", "IN_REVIEW", "ITERATING"})
        => /\ res.out.can_spawn
                <=> AllDepsSatisfied(plan.tasks, plan.tasks[t].dependencies)
           /\ ~res.out.can_spawn => (res.out.has_error /\ res.out.has_hint)

\* C9 witness: a PENDING task with one satisfied and one unsatisfied
\* dependency was refused with an error and a hint.
C9_Witness ==
    \E t \in DOMAIN plan.tasks :
        /\ CheckReturned(t)
        /\ plan.tasks[t].status = "PENDING"
        /\ Len(plan.tasks[t].dependencies) = 2
        /\ DepSatisfied(plan.tasks, plan.tasks[t].dependencies[1])
        /\ ~DepSatisfied(plan.tasks, plan.tasks[t].dependencies[2])
        /\ ~res.out.can_spawn /\ res.out.has_error /\ res.out.has_hint

BatchReturned == res.op \in {"spawn_unblocked_tasks", "spawn_parallel"}

\* C5: spawn_unblocked_tasks and spawn_parallel invoke the spawner only for
\* tasks of the plan that are unblocked when the call reads the plan: a
\* spawned task is PENDING or BLOCKED (not in progress, completed or
\* abandoned) and every one of its dependencies is completed-class.
C5_SpawnOnlyUnblocked ==
    BatchReturned =>
        \A i \in DOMAIN res.out.invoked :
            LET t == res.out.invoked[i]
            IN  /\ plan.readable
                /\ t \in DOMAIN plan.tasks
                /\ plan.tasks[t].status \notin {"IN_PROGRESS", "IN_REVIEW", "ITERATING"}
                /\ plan.tasks[t].status \notin {"COMPLETED", "DONE", "MERGED"}
                /\ plan.tasks[t].status # "ABANDONED"
                /\ AllDepsSatisfied(plan.tasks, plan.tasks[t].dependencies)

\* C5 witness: a batch call spawned one task while the other task, which
\* has a worktree too, was held back because its dependency is not
\* completed.
C5_Witness ==
    /\ BatchReturned
    /\ Len(res.out.invoked) = 1
    /\ \E t \in DOMAIN plan.tasks :
        /\ t \in worktrees
        /\ plan.tasks[t].status = "PENDING"
        /\ ~AllDepsSatisfied(plan.tasks, plan.tasks[t].dependencies)
        /\ ~InSeq(t, res.out.invoked)

(***************************************************************************)
(* Properties of the workspace lock                                        *)
(***************************************************************************)
\* acquire has returned success to p and p has not called release yet
HoldsLock(p) == pc[p] = "git" /\ op[p] \in LockedOps

\* C1: at most one process holds the WorkspaceLock of the workspace at any
\* time, under any interleaving of acquire (with its stale-lock
\* reclamation by dead pid or by age) and release.
C1_MutualExclusion ==
    \A p, q \in Procs : (HoldsLock(p) /\ HoldsLock(q)) => p = q

\* C6: every operation that mutates branches, worktrees or task folders
\* runs its git steps while its process holds the workspace lock, and the
\* git steps of two such operations never overlap.
C6_MutationsUnderLock ==
    /\ \A p \in Procs : pc[p] = "git" => locked[p]
    /\ \A p, q \in Procs : (pc[p] = "git" /\ pc[q] = "git") => p = q

C15_LockHeldCarriesHolder ==
    \A p \in Procs :
        /\ pc[p] = "acq_sleep" => blocking[p]
        /\ pc[p] = "lock_held" =>
              /\ lockErr[p].kind = "LockHeld"
              /\ lockErr[p].holder # NoInfo
              /\ lockErr[p].holder.pid \in lockErr[p].locked_by

\* p is inside acquire
Acquiring(p) ==
    pc[p] \in {"acq_check", "acq_unlink_lock", "acq_unlink_info", "acq_open",
               "acq_flock", "acq_sleep", "acq_write_info"}

\* p's acquire has failed and not yet been returned to the caller
AcquireFailed(p) == pc[p] \in {"lock_held", "lock_timeout"}

\* a failed acquire holds no OS lock, has no descriptor open and has no
\* sidecar of its own; a timeout is raised only once the timeout elapsed
FailsCleanly ==
    \A p \in Procs : AcquireFailed(p) =>
        /\ ~locked[p]
        /\ fd[p] = 0
        /\ info.pid # p
        /\ pc[p] = "lock_timeout" =>
              /\ lockErr[p].kind = "LockTimeout"
              /\ blocking[p]
              /\ now - started[p] >= LockTimeout

\* C16: a blocking acquire whose timeout lies within the clock's range
\* always ends, with the lock acquired or with LockTimeout (or the process
\* dies), and a failed acquire leaves no lock, descriptor or sidecar of
\* the caller behind
C16_BlockingAcquireTerminates ==
    /\ []FailsCleanly
    /\ \A p \in Procs :
          (Acquiring(p) /\ blocking[p] /\ started[p] + LockTimeout <= MaxTime)
             ~> (pc[p] \in {"git", "lock_timeout", "dead"})

\* a blocking acquire has timed out while another process holds the lock
C16_Witness ==
    \E p \in Procs :
        /\ pc[p] = "lock_timeout"
        /\ lockErr[p].kind = "LockTimeout"
        /\ fd[p] = 0
        /\ \E q \in Procs \ {p} : locked[q]

(***************************************************************************)
(* Properties of the accept transaction                                    *)
(***************************************************************************)
\* the transaction has returned
AcceptReturned == tx.pc = "done"

\* main's commit, the checked-out branch and the worktree's commit are the
\* checkpointed ones
AtCheckpoint ==
    /\ repo.main = tx.checkpoint.main
    /\ repo.head = tx.checkpoint.branch
    /\ repo.wt = tx.checkpoint.wt

\* C2: when Rebase, Test-after-rebase, Switch-to-main, Merge or
\* Test-after-merge failed, the returned transaction leaves main's commit,
\* the primary clone's checked-out branch and the worktree's commit at
\* their checkpointed values
C2_RollbackComplete ==
    (/\ AcceptReturned
     /\ tx.failed \in {"rebase", "test_rebase", "switch", "merge",
                       "test_merge"})
        => AtCheckpoint

\* the cleanup steps that have been attempted so far
CleanupDone ==
    CASE tx.pc = "delete_local" -> {"remove_worktree"}
      [] tx.pc = "delete_remote" -> {"remove_worktree", "delete_local"}
      [] tx.pc \in {"return", "done"} ->
            {"remove_worktree", "delete_local"} \cup
            (IF tx.delete_remote THEN {"delete_remote"} ELSE {})
      [] OTHER -> {}

\* the cleanup steps that left what they were to remove in place
CleanupLeftovers ==
    {s \in CleanupDone :
        \/ s = "remove_worktree" /\ repo.wt_exists
        \/ s = "delete_local" /\ repo.local_branch
        \/ s = "delete_remote" /\ repo.remote_branch}

\* C3: after a successful Push, a failing worktree removal, local branch
\* deletion or remote branch deletion starts no rollback (main and the
\* remote stay at the merge commit, nothing is marked failed or rolled
\* back), the transaction returns success=true, and each such failure is
\* one warning
C3_CleanupNeverRollsBack ==
    tx.pushed =>
        /\ tx.pc \in {"remove_worktree", "delete_local", "delete_remote",
                      "return", "done"}
        /\ tx.failed = "none"
        /\ ~tx.rolled_back
        /\ tx.rollback_log = <<>>
        /\ repo.main = "mc"
        /\ repo.remote_main = "mc"
        /\ AcceptReturned => tx.success
        /\ {tx.warnings[i] : i \in DOMAIN tx.warnings} = CleanupLeftovers
        /\ Len(tx.warnings) = Cardinality(CleanupLeftovers)

\* a pushed transaction returned after its worktree removal failed
C3_Witness ==
    /\ AcceptReturned
    /\ tx.pushed
    /\ tx.success
    /\ repo.wt_exists
    /\ "remove_worktree" \in {tx.warnings[i] : i \in DOMAIN tx.warnings}

\* the test collaborator's i-th run of this transaction passed
TestRunPassed(i) == Len(tx.test_log) >= i /\ tx.test_log[i] = "passed"

\* C11: Merge runs only after the post-rebase tests passed and Push only
\* after the post-merge tests passed; a successful transaction ran the
\* tests exactly twice; a non-pass result at either gate fails the
\* transaction and sends it into rollback
C11_DoubleTestGate ==
    /\ (tx.pc = "merge" \/ tx.failed = "merge" \/ repo.merging
           \/ repo.main = "mc") => TestRunPassed(1)
    /\ (tx.pc = "push" \/ tx.failed = "push" \/ repo.remote_main = "mc")
           => (TestRunPassed(1) /\ TestRunPassed(2))
    /\ (AcceptReturned /\ tx.success)
           => (tx.tests = 2 /\ TestRunPassed(1) /\ TestRunPassed(2))
    /\ \A i \in DOMAIN tx.test_log :
          tx.test_log[i] # "passed" =>
              /\ i = Len(tx.test_log)
              /\ tx.failed = (IF i = 1 THEN "test_rebase" ELSE "test_merge")
              /\ tx.pc \in {"rollback", "reset_main", "done"}
              /\ AcceptReturned =>
                    (~tx.success /\ tx.rollback_log # <<>> /\ AtCheckpoint)

\* a transaction whose post-merge test run timed out has been rolled back
C11_Witness ==
    /\ AcceptReturned
    /\ tx.test_log = <<"passed", "timeout">>
    /\ ~tx.success
    /\ tx.rolled_back

\* C12: when the Push step fails the transaction rolls back in full: main
\* is reset to the checkpointed commit (the remote never moved), the
\* originally checked-out branch is restored, the worktree is back at its
\* checkpoint, and the result is a failure with rolled_back=true
C12_PushFailureRollsBack ==
    (AcceptReturned /\ tx.failed = "push") =>
        /\ AtCheckpoint
        /\ ~repo.merging
        /\ repo.remote_main = tx.checkpoint.main
        /\ ~tx.success
        /\ tx.rolled_back
        /\ tx.rollback_errors = <<>>

\* a transaction started from develop returned after its push was refused
C12_Witness ==
    /\ AcceptReturned
    /\ tx.failed = "push"
    /\ tx.checkpoint.branch = "develop"
    /\ repo.head = "develop"
    /\ repo.main = "m0"

\* a sequence back to front
RECURSIVE Reverse(_)
Reverse(seq) ==
    IF seq = <<>> THEN <<>>
    ELSE Append(Reverse(SubSeq(seq, 2, Len(seq))), seq[1])

\* the steps whose bound rollback undoes something the rebase did
RebaseSteps == {"rebase", "test_rebase"}

\* the rollback walk so far is the completed steps, last completed first,
\* and a failed rollback action has not kept the later ones from acting
RollbackWalk ==
    /\ tx.pc = "rollback" =>
          tx.rollback_log \o Reverse(tx.undo) = Reverse(tx.completed)
    /\ (tx.pc \in {"reset_main", "done"} /\ tx.failed # "none") =>
          /\ tx.rollback_log = Reverse(tx.completed)
          /\ \A i \in DOMAIN tx.completed : tx.completed[i] # tx.failed
          /\ (\E i \in DOMAIN tx.completed : tx.completed[i] \in RebaseSteps)
                => (repo.wt = tx.checkpoint.wt /\ ~repo.rebasing)
    /\ tx.failed = "none" => tx.rollback_log = <<>>
    /\ \A i \in DOMAIN tx.rollback_errors :
          tx.rollback_errors[i] \in {"switch", "restore_branch"}

\* C13: rollback walks exactly the completed steps, last completed first,
\* the failed step not among them; the Checkpoint step, which has no
\* rollback action, changes nothing and is never a rollback error; a
\* rollback action that fails is recorded and the walk goes on to the end,
\* so the rollbacks of earlier steps still take effect
C13_RollbackReverseOrder ==
    /\ []RollbackWalk
    /\ [][(tx.pc = "rollback" /\ tx.undo # <<>>
             /\ tx.undo[Len(tx.undo)] = "checkpoint")
            => (repo' = repo /\ tx'.rollback_errors = tx.rollback_errors)]_vars

\* a rollback whose switch back was refused went on to undo the rebase
C13_Witness ==
    /\ AcceptReturned
    /\ tx.failed = "merge"
    /\ tx.rollback_errors = <<"switch", "restore_branch">>
    /\ tx.rollback_log = <<"switch", "test_rebase", "rebase", "checkpoint">>
    /\ repo.wt = tx.checkpoint.wt

(***************************************************************************)
(* Properties of the sub-agent status record                               *)
(***************************************************************************)
\* C14: once the record's status is COMPLETED or FAILED, no write_status,
\* heartbeat or mark_* call changes the status or completed_at
C14_TerminalImmutable ==
    [][(health.status \in TERMINAL_STATUSES /\ health' # NoStatus)
         => (/\ health'.status = health.status
             /\ health'.completed_at = health.completed_at)]_vars

(***************************************************************************)
(* Properties of the plan graph: cycles and re-reading                     *)
(***************************************************************************)
\* the tasks of the plan that t names as dependencies
DepTasks(tasks, t) ==
    {tasks[t].dependencies[i] : i \in DOMAIN tasks[t].dependencies}
        \cap DOMAIN tasks

\* S closed under "dependency of"
RECURSIVE DepClosure(_, _)
DepClosure(tasks, S) ==
    LET more == S \cup UNION {DepTasks(tasks, u) : u \in S}
    IN  IF more = S THEN S ELSE DepClosure(tasks, more)

\* the tasks t depends on, directly or through other tasks
DependsOn(tasks, t) == DepClosure(tasks, DepTasks(tasks, t))

\* the members of the dependency cycles through t (empty: t is on none)
CycleOf(tasks, t) ==
    {u \in DependsOn(tasks, t) : t \in DependsOn(tasks, u)}

\* C17: on a readable plan get_unblocked_tasks returns a result even when
\* dependencies form a cycle, and a task on a cycle (a self-dependency
\* included) whose cycle members are all PENDING or BLOCKED is in
\* `blocked`, whatever the statuses of the tasks outside the cycle
C17_CycleMembersBlocked ==
    (res.op = "get_unblocked_tasks" /\ plan.readable) =>
        /\ res.out.success
        /\ \A t \in DOMAIN plan.tasks :
              (/\ CycleOf(plan.tasks, t) # {}
               /\ \A u \in CycleOf(plan.tasks, t) :
                     plan.tasks[u].status \in {"PENDING", "BLOCKED"})
                 => (/\ InSeq(t, res.out.blockedNames)
                     /\ ~InSeq(t, res.out.unblocked))

\* task-a and task-b depend on each other, both wait, both are reported
\* blocked
C17_Witness ==
    /\ UnblockedReturned
    /\ plan.tasks["task-a"].dependencies = <<"task-b">>
    /\ plan.tasks["task-b"].dependencies = <<"task-a">>
    /\ plan.tasks["task-a"].status = "PENDING"
    /\ plan.tasks["task-b"].status = "BLOCKED"
    /\ res.out.blockedNames = <<"task-a", "task-b">>

\* C18: whatever was read or returned before, a query returns the result
\* of the plan.md of the moment of the call; in particular task-b, blocked
\* only on task-a, is unblocked in the first query after task-a's status
\* became completed-class
C18_QueriesRereadPlan ==
    /\ res.op = "get_unblocked_tasks" =>
          /\ res.out = GetUnblockedTasks(plan)
          /\ (/\ plan.tasks["task-b"].dependencies = <<"task-a">>
              /\ plan.tasks["task-b"].status \in {"PENDING", "BLOCKED"}
              /\ plan.tasks["task-a"].status \in {"COMPLETED", "DONE", "MERGED"})
                => (/\ InSeq("task-b", res.out.unblocked)
                    /\ ~InSeq("task-b", res.out.blockedNames))
    /\ res.op = "check_dependencies" =>
          res.out = CheckDependencies(res.task_name, plan)

\* the first query saw task-a PENDING and so task-b blocked; task-a has
\* since been marked COMPLETED and the query after the edit reports
\* task-b unblocked
C18_Witness ==
    /\ seen # NoPlan
    /\ seen.tasks["task-a"].status = "PENDING"
    /\ seen.tasks["task-b"].status = "PENDING"
    /\ InSeq("task-b", GetUnblockedTasks(seen).blockedNames)
    /\ plan.tasks["task-b"].dependencies = <<"task-a">>
    /\ plan.tasks["task-a"].status = "COMPLETED"
    /\ res.op = "get_unblocked_tasks"
    /\ res.out.unblocked = <<"task-b">>

(***************************************************************************)
(* Properties of the batch operations                                      *)
(***************************************************************************)
\* the members of a sequence
SeqSet(s) == {s[i] : i \in DOMAIN s}

\* the tasks a spawn call may launch: unblocked in the plan, with a worktree
Spawnable ==
    {t \in DOMAIN plan.tasks :
        /\ plan.tasks[t].status \in {"PENDING", "BLOCKED"}
        /\ AllDepsSatisfied(plan.tasks, plan.tasks[t].dependencies)
        /\ t \in worktrees}

\* spawn_parallel has returned a batch result (not its parameter or plan
\* error)
ParallelReturned == res.op = "spawn_parallel" /\ ~res.out.has_error

\* what C19 says about the cap and about `remaining`
ParallelCapped ==
    /\ Len(res.out.invoked) <= res.max_parallel
    /\ SeqSet(res.out.remaining) \subseteq Spawnable
    /\ SeqSet(res.out.remaining) \cap SeqSet(res.out.failed) = {}
    /\ SeqSet(res.out.spawned) \cap SeqSet(res.out.remaining) = {}
    /\ Len(res.out.remaining) =
          (IF Cardinality(Spawnable) > res.max_parallel
           THEN Cardinality(Spawnable) - res.max_parallel ELSE 0)

\* C19 as stated: at most max spawner invocations; the spawnable tasks
\* beyond the cap are in `remaining` and not in `failed`; `spawned` and
\* `remaining` are disjoint and together exactly the spawnable tasks;
\* `remaining` is empty when there are no more than max of them
C19_ParallelCap_SpawnedAndRemaining ==
    ParallelReturned =>
        /\ ParallelCapped
        /\ SeqSet(res.out.spawned) \cup SeqSet(res.out.remaining) = Spawnable

\* C19 amended: as stated, except that `spawned`, `failed` and `remaining`
\* are pairwise disjoint and together exactly the spawnable tasks: a task
\* whose spawner invocation failed is in `failed`, in neither of the others
C19_ParallelCap ==
    ParallelReturned =>
        /\ ParallelCapped
        /\ SeqSet(res.out.spawned) \cap SeqSet(res.out.failed) = {}
        /\ SeqSet(res.out.spawned) \cup SeqSet(res.out.failed)
              = SeqSet(res.out.invoked)
        /\ SeqSet(res.out.spawned) \cup SeqSet(res.out.failed)
              \cup SeqSet(res.out.remaining) = Spawnable

\* spawn_parallel(1) with two spawnable tasks: one invocation, one task
\* remaining
C19_Witness ==
    /\ ParallelReturned
    /\ res.max_parallel = 1
    /\ Cardinality(Spawnable) = 2
    /\ Len(res.out.invoked) = 1
    /\ Len(res.out.remaining) = 1

\* create_all_tasks has returned a batch result (not its plan error)
CreateReturned == res.op = "create_all_tasks" /\ ~res.out.has_error

\* the PENDING tasks of the plan
PendingTasks == {t \in DOMAIN plan.tasks : plan.tasks[t].status = "PENDING"}

\* C20: create_all_tasks attempts creation for exactly the PENDING tasks
\* that had no task folder; the PENDING tasks whose folder existed are the
\* ones in `skipped`; a failed creation does not keep the later tasks from
\* being attempted, and every attempted task is in exactly one of
\* `created` and `failed`; the created tasks now have their folder
C20_CreateAllMissingPending ==
    CreateReturned =>
        /\ SeqSet(res.out.attempted) = PendingTasks \ res.folders
        /\ SeqSet(res.out.skipped) = PendingTasks \cap res.folders
        /\ SeqSet(res.out.created) \cup SeqSet(res.out.failed)
              = SeqSet(res.out.attempted)
        /\ SeqSet(res.out.created) \cap SeqSet(res.out.failed) = {}
        /\ Len(res.out.created) + Len(res.out.failed)
              = Cardinality(PendingTasks \ res.folders)
        /\ folders = res.folders \cup SeqSet(res.out.created)
        /\ res.out.success <=> (res.out.failed = <<>>)

\* the creation of task-a failed and task-b was created all the same
C20_Witness ==
    /\ CreateReturned
    /\ res.folders = {}
    /\ res.out.failed = <<"task-a">>
    /\ res.out.created = <<"task-b">>
    /\ folders = {"task-b"}

(***************************************************************************)
(* git_ops.py: sync_all_worktrees, the sweep over the task folders under   *)
(* the workspace lock.  `res` is the result dict the call builds.          *)
(***************************************************************************)
\* the process that calls sync_all_worktrees, and a process that runs
\* accept_task beside it
Syncer == "p1"

Contender == "p2"

\* sorted(workspace.iterdir()) restricted to the task-* directories
SortedFolders(flds) == SelectSeq(TaskOrder, LAMBDA t : t \in flds)

\* the call before it has the lock: `results` does not exist yet
SyncCall ==
    [op |-> "sync_all_worktrees", status |-> "acquiring", todo |-> <<>>,
     success |-> TRUE, error |-> "none", synced |-> <<>>, failed |-> <<>>,
     skipped |-> <<>>, git |-> <<>>, rebasing |-> {}]

\* where the `with workspace_lock(...)` block goes when its body is left
\* (mutation: the lock is released on a normal return only)
SyncExitPc_ReturnOnly(raised) == IF raised THEN "idle" ELSE "rel_unlock"

\* where the `with workspace_lock(...)` block goes when its body is left,
\* by `return` or by an exception: to the release of the lock
SyncExitPc(raised) == "rel_unlock"

\* `except LockError` (mutation: the handler fetches before it returns)
SyncLockErrorResult_Fetches(s, e) ==
    [s EXCEPT !.status = "lock_error", !.success = FALSE, !.error = e.kind,
              !.git = Append(@, <<"none", "fetch">>)]

\* `except LockError as e: return e.to_dict()`
SyncLockErrorResult(s, e) ==
    [s EXCEPT !.status = "lock_error", !.success = FALSE, !.error = e.kind]

\* the git commands rebase_branch ran in the worktree of task t
RebaseCommands(t, result) ==
    <<<<t, "fetch">>, <<t, "rebase">>>> \o
    (IF result.aborted THEN <<<<t, "rebase --abort">>>> ELSE <<>>)

\* SyncVisitFolder leaving the loop at the first rebase that fails
SyncVisitFolder_StopsOnFailure(s, t, wts, outcome) ==
    LET result == RebaseBranch(CleanRepo, outcome, TRUE)
    IN  IF t \notin wts
        THEN [s EXCEPT !.todo = Tail(@), !.skipped = Append(@, t)]
        ELSE IF result.success
        THEN [s EXCEPT !.todo = Tail(@), !.synced = Append(@, t),
                       !.git = @ \o RebaseCommands(t, result)]
        ELSE [s EXCEPT !.todo = <<>>,
                       !.failed = Append(@, [task |-> t,
                                             conflicts |-> result.conflicts]),
                       !.success = FALSE,
                       !.git = @ \o RebaseCommands(t, result),
                       !.rebasing = IF result.repo.rebasing
                                    THEN @ \cup {t} ELSE @]

\* _sync_all_worktrees_locked, one iteration of the loop: the directory has
\* no worktree and is skipped, or its worktree is rebased with
\* abort_on_conflict=True and recorded as synced or failed
SyncVisitFolder(s, t, wts, outcome) ==
    LET result == RebaseBranch(CleanRepo, outcome, TRUE)
    IN  IF t \notin wts
        THEN [s EXCEPT !.todo = Tail(@), !.skipped = Append(@, t)]
        ELSE IF result.success
        THEN [s EXCEPT !.todo = Tail(@), !.synced = Append(@, t),
                       !.git = @ \o RebaseCommands(t, result)]
        ELSE [s EXCEPT !.todo = Tail(@),
                       !.failed = Append(@, [task |-> t,
                                             conflicts |-> result.conflicts]),
                       !.success = FALSE,
                       !.git = @ \o RebaseCommands(t, result),
                       !.rebasing = IF result.repo.rebasing
                                    THEN @ \cup {t} ELSE @]

SyncInit ==
    /\ LockInit
    /\ HealthIdle
    /\ AcceptIdle
    /\ plan = NoPlan
    /\ folders \in SUBSET TaskNames
    /\ worktrees \in SUBSET folders
    /\ res = NoResult
    /\ seen = NoPlan

\* sync_all_worktrees is called: it enters workspace_lock
SyncStart ==
    /\ pc[Syncer] = "idle"
    /\ res = NoResult
    /\ \E b \in BOOLEAN :
        /\ blocking' = [blocking EXCEPT ![Syncer] = b]
        /\ started' = [started EXCEPT ![Syncer] = IF b THEN now ELSE 0]
    /\ op' = [op EXCEPT ![Syncer] = "sync_all_worktrees"]
    /\ pc' = [pc EXCEPT ![Syncer] = "acq_check"]
    /\ solo' = [q \in Procs |-> FALSE]
    /\ res' = SyncCall
    /\ UNCHANGED <<fd, locked, lockFile, info, now, lockErr, plan, worktrees,
                   folders, seen, acceptVars, health>>

\* the lock could not be acquired: the LockError is caught and returned
SyncLockError ==
    /\ pc[Syncer] \in {"lock_held", "lock_timeout"}
    /\ res' = SyncLockErrorResult(res, lockErr[Syncer])
    /\ pc' = [pc EXCEPT ![Syncer] = "idle"]
    /\ op' = [op EXCEPT ![Syncer] = "none"]
    /\ solo' = [solo EXCEPT ![Syncer] = FALSE]
    /\ blocking' = [blocking EXCEPT ![Syncer] = FALSE]
    /\ started' = [started EXCEPT ![Syncer] = 0]
    /\ lockErr' = [lockErr EXCEPT ![Syncer] = NoLockError]
    /\ UNCHANGED <<fd, locked, lockFile, info, now, plan, worktrees, folders,
                   seen, acceptVars, health>>

\* _sync_all_worktrees_locked starts: the task folders are listed
SyncListFolders ==
    /\ pc[Syncer] = "git"
    /\ res.status = "acquiring"
    /\ res' = [res EXCEPT !.status = "sweeping",
                          !.todo = SortedFolders(folders)]
    /\ UNCHANGED <<plan, worktrees, folders, seen, lockVars, acceptVars, health>>

\* one iteration of the sweep
SyncVisit ==
    /\ pc[Syncer] = "git"
    /\ res.status = "sweeping"
    /\ res.todo # <<>>
    /\ \E outcome \in RebaseOutcomes :
        res' = SyncVisitFolder(res, Head(res.todo), worktrees, outcome)
    /\ UNCHANGED <<plan, worktrees, folders, seen, lockVars, acceptVars, health>>

\* the sweep is over: `return results` leaves the with block
SyncSweepDone ==
    /\ pc[Syncer] = "git"
    /\ res.status = "sweeping"
    /\ res.todo = <<>>
    /\ res' = [res EXCEPT !.status = "returned"]
    /\ pc' = [pc EXCEPT ![Syncer] = SyncExitPc(FALSE)]
    /\ solo' = [solo EXCEPT ![Syncer] = FALSE]
    /\ UNCHANGED <<op, blocking, fd, locked, started, lockFile, info, now,
                   lockErr, plan, worktrees, folders, seen, acceptVars, health>>

\* an exception other than LockError leaves the with block (iterdir or
\* subprocess.run raising OSError) and propagates to the caller
SyncRaise ==
    /\ pc[Syncer] = "git"
    /\ res.status \in {"acquiring", "sweeping"}
    /\ res' = [res EXCEPT !.status = "raised", !.success = FALSE]
    /\ pc' = [pc EXCEPT ![Syncer] = SyncExitPc(TRUE)]
    /\ solo' = [solo EXCEPT ![Syncer] = FALSE]
    /\ UNCHANGED <<op, blocking, fd, locked, started, lockFile, info, now,
                   lockErr, plan, worktrees, folders, seen, acceptVars, health>>

\* the caller has consumed what sync_all_worktrees returned or raised
SyncConsumed ==
    /\ pc[Syncer] = "idle"
    /\ res # NoResult
    /\ res' = NoResult
    /\ UNCHANGED <<plan, worktrees, folders, seen, lockVars, acceptVars, health>>

\* the steps of workspace_lock: acquire and release
LockSteps(p) ==
    \/ AcquireCheckStale(p)
    \/ AcquireUnlinkLock(p)
    \/ AcquireUnlinkInfo(p)
    \/ AcquireOpen(p)
    \/ AcquireFlockOk(p)
    \/ AcquireFlockBusy(p)
    \/ AcquireRetry(p)
    \/ AcquireWriteInfo(p)
    \/ ReleaseUnlock(p)
    \/ ReleaseUnlinkLock(p)
    \/ ReleaseUnlinkInfo(p)

SyncNext ==
    \/ SyncStart
    \/ SyncLockError
    \/ SyncListFolders
    \/ SyncVisit
    \/ SyncSweepDone
    \/ SyncRaise
    \/ SyncConsumed
    \/ LockSteps(Syncer)
    \/ StartLocked(Contender)
    \/ LockSteps(Contender)
    \/ LockErrorReturn(Contender)
    \/ GitSteps(Contender)
    \/ Crash(Contender)
    \/ Tick

SpecSync == SyncInit /\ [][SyncNext]_vars

(***************************************************************************)
(* Properties of sync_all_worktrees                                        *)
(***************************************************************************)
\* sync_all_worktrees is inside _sync_all_worktrees_locked
SyncSweeping == res.op = "sync_all_worktrees" /\ pc[Syncer] = "git"

\* sync_all_worktrees has returned a result or raised
SyncLeft ==
    /\ res.op = "sync_all_worktrees"
    /\ pc[Syncer] = "idle"

\* during the sweep the caller owns the OS-level lock it acquired; once the
\* call has returned or raised it owns no lock and has no descriptor open
SyncLockScoped ==
    /\ SyncSweeping => (locked[Syncer] /\ fd[Syncer] # 0)
    /\ SyncLeft => (~locked[Syncer] /\ fd[Syncer] = 0)

\* a step of the call that lists the folders, visits one or runs a git
\* command starts and ends with the lock owned
SyncStepLocked ==
    (/\ res.op = "sync_all_worktrees"
     /\ res'.op = "sync_all_worktrees"
     /\ \/ res'.todo # res.todo
        \/ res'.git # res.git
        \/ res'.synced # res.synced
        \/ res'.failed # res.failed
        \/ res'.skipped # res.skipped)
    => (locked[Syncer] /\ locked'[Syncer])

\* C21: sync_all_worktrees holds the workspace lock for its entire sweep
\* over the task folders and has released it whenever it returns or
\* raises, whatever the outcome of the individual rebases.
C21_SyncHoldsLockForSweep == []SyncLockScoped /\ [][SyncStepLocked]_vars

\* C21 witness: the call has raised in the middle of a sweep, after a
\* rebase that failed, and the lock is released.
C21_Witness ==
    /\ SyncLeft
    /\ res.status = "raised"
    /\ res.failed # <<>>
    /\ res.todo # <<>>
    /\ ~locked[Syncer]

\* sync_all_worktrees has returned the lock error
SyncLockFailed == res.op = "sync_all_worktrees" /\ res.status = "lock_error"

\* a call whose acquire has failed has run no git command and visited no
\* folder; what it returns is the lock error as a failed result
SyncNothingRun ==
    /\ res.git = <<>>
    /\ res.rebasing = {}
    /\ res.todo = <<>>
    /\ res.synced = <<>>
    /\ res.failed = <<>>
    /\ res.skipped = <<>>

\* C22: if the workspace lock cannot be acquired, sync_all_worktrees
\* returns the lock error as a failed result and runs no fetch, rebase or
\* other git command on any worktree.
C22_LockErrorRunsNoGit ==
    /\ (res.op = "sync_all_worktrees" /\ AcquireFailed(Syncer)) =>
            (res.status = "acquiring" /\ SyncNothingRun)
    /\ SyncLockFailed =>
            /\ pc[Syncer] = "idle"
            /\ ~res.success
            /\ res.error \in {"LockHeld", "LockTimeout"}
            /\ SyncNothingRun

\* C22 witness: the call returned LockTimeout while the other process was
\* in its git steps, in a workspace with a worktree to sync.
C22_Witness ==
    /\ SyncLockFailed
    /\ res.error = "LockTimeout"
    /\ pc[Contender] = "git"
    /\ worktrees # {}

(***************************************************************************)
(* Further properties of the plan graph                                    *)
(***************************************************************************)
\* C23: check_dependencies on a task whose status is IN_PROGRESS, IN_REVIEW
\* or ITERATING returns can_spawn=true with an info message and an empty
\* missing list, whatever the statuses of its dependencies.
C23_InProgressRespawn ==
    (/\ res.op = "check_dependencies"
     /\ plan.readable
     /\ res.task_name \in DOMAIN plan.tasks
     /\ plan.tasks[res.task_name].status \in
            {"IN_PROGRESS", "IN_REVIEW", "ITERATING"})
    => /\ res.out.success
       /\ res.out.can_spawn
       /\ res.out.task_exists
       /\ res.out.note = "info"
       /\ res.out.missing = <<>>
       /\ ~res.out.has_error
       /\ res.out.status = plan.tasks[res.task_name].status

\* C23 witness: the checked task is ITERATING and depends on a task that is
\* PENDING and on a name that heads no section.
C23_Witness ==
    /\ res.op = "check_dependencies"
    /\ plan.readable
    /\ res.task_name = "task-a"
    /\ plan.tasks["task-a"].status = "ITERATING"
    /\ plan.tasks["task-a"].dependencies = <<"task-b", "task-x">>
    /\ plan.tasks["task-b"].status = "PENDING"
    /\ res.out.can_spawn

\* C24: check_dependencies on a task name that is not in the plan succeeds
\* with can_spawn=true, task_exists=false and a warning, while a check that
\* cannot read plan.md returns can_spawn=false.
C24_UnknownTaskAllowed ==
    res.op = "check_dependencies" =>
        /\ (plan.readable /\ res.task_name \notin DOMAIN plan.tasks) =>
                /\ res.out.success
                /\ res.out.can_spawn
                /\ ~res.out.task_exists
                /\ res.out.note = "warning"
                /\ ~res.out.has_error
                /\ res.out.missing = <<>>
                /\ res.out.completed = <<>>
        /\ ~plan.readable =>
                /\ ~res.out.success
                /\ ~res.out.can_spawn
                /\ ~res.out.task_exists
                /\ res.out.has_error

\* C24 witness: a name that heads no section was checked against a
\* readable plan in which it is a dependency of a task.
C24_Witness ==
    /\ res.op = "check_dependencies"
    /\ plan.readable
    /\ res.task_name = "task-x"
    /\ plan.tasks["task-a"].dependencies = <<"task-x">>
    /\ res.out.can_spawn

\* C25: an ABANDONED task is not blocking: get_unblocked_tasks never
\* reports a task in `blocked` with an ABANDONED task among its missing
\* dependencies.
C25_AbandonedNotBlocking ==
    UnblockedReturned =>
        \A i \in DOMAIN res.out.blocked :
            \A j \in DOMAIN res.out.blocked[i].missing :
                LET dep == res.out.blocked[i].missing[j]
                IN  dep \in DOMAIN plan.tasks =>
                        plan.tasks[dep].status # "ABANDONED"

(***************************************************************************)
(* git_ops.py: how rebase_branch and merge_branch classify a failed git    *)
(* command.  A text is the sequence of its words; a word is its letters    *)
(* in lower case together with the case it is written in.                  *)
(***************************************************************************)
\* longest stdout/stderr, in words
MaxWords == 2

Cases == {"lower", "upper", "mixed"}

\* the word written in the given case: Word("conflict", "upper") is CONFLICT
Word(letters, case) == [letters |-> letters, case |-> case]

\* texts that have no letters read the same in every case
Caseless == {"", "-"}

\* str.upper()
Upper(w) == IF w.letters \in Caseless THEN w ELSE [w EXCEPT !.case = "upper"]

\* str.lower()
Lower(w) == IF w.letters \in Caseless THEN w ELSE [w EXCEPT !.case = "lower"]

\* words git prints: `conflict` in its three cases, and another word
OutputWords == {Word("conflict", c) : c \in Cases} \cup {Word("error", "lower")}

Outputs == UNION {[1..n -> OutputWords] : n \in 0..MaxWords}

\* text.lower()
LowerText(text) == [i \in DOMAIN text |-> Lower(text[i])]

\* `word in text`
Contains(text, w) == \E i \in DOMAIN text : text[i] = w

\* has_conflicts = "CONFLICT" in stderr or "conflict" in stdout.lower()
HasConflicts(stdout, stderr) ==
    \/ Contains(stderr, Word("conflict", "upper"))
    \/ Contains(LowerText(stdout), Word("conflict", "lower"))

\* rebase_branch: the result for what `git rebase` returned
RebaseResult(returncode, stdout, stderr, abort_on_conflict) ==
    LET has_conflicts == HasConflicts(stdout, stderr)
    IN  IF returncode = 0
        THEN [success |-> TRUE, conflicts |-> FALSE, aborted |-> FALSE,
              error_code |-> "none"]
        ELSE IF has_conflicts /\ abort_on_conflict
        THEN [success |-> FALSE, conflicts |-> TRUE, aborted |-> TRUE,
              error_code |-> "REBASE_CONFLICT_ABORTED"]
        ELSE [success |-> FALSE, conflicts |-> has_conflicts,
              aborted |-> FALSE, error_code |-> "REBASE_FAILED"]

\* merge_branch: the result for what `git merge` returned
MergeResult(returncode, stdout, stderr) ==
    LET has_conflicts == HasConflicts(stdout, stderr)
    IN  IF returncode = 0
        THEN [success |-> TRUE, conflicts |-> FALSE, aborted |-> FALSE,
              error_code |-> "none"]
        ELSE IF has_conflicts
        THEN [success |-> FALSE, conflicts |-> TRUE, aborted |-> FALSE,
              error_code |-> "MERGE_CONFLICT"]
        ELSE [success |-> FALSE, conflicts |-> FALSE, aborted |-> FALSE,
              error_code |-> "MERGE_FAILED"]

\* run_command has returned from `git rebase` or `git merge`
GitInit ==
    /\ LockInit
    /\ HealthIdle
    /\ AcceptIdle
    /\ plan = NoPlan
    /\ worktrees = {}
    /\ folders = {}
    /\ seen = NoPlan
    /\ \E command \in {"rebase", "merge"}, returncode \in {0, 1},
          stdout \in Outputs, stderr \in Outputs :
          res = [op |-> "run_command", command |-> command,
                 returncode |-> returncode, stdout |-> stdout,
                 stderr |-> stderr]

\* rebase_branch returns
RebaseReturn ==
    /\ res.op = "run_command"
    /\ res.command = "rebase"
    /\ \E abort_on_conflict \in BOOLEAN :
        res' = [op |-> "rebase_branch", ran |-> res,
                abort_on_conflict |-> abort_on_conflict,
                out |-> RebaseResult(res.returncode, res.stdout, res.stderr,
                                     abort_on_conflict)]
    /\ UNCHANGED <<plan, worktrees, folders, seen, lockVars, acceptVars, health>>

\* merge_branch returns
MergeReturn ==
    /\ res.op = "run_command"
    /\ res.command = "merge"
    /\ res' = [op |-> "merge_branch", ran |-> res, abort_on_conflict |-> FALSE,
               out |-> MergeResult(res.returncode, res.stdout, res.stderr)]
    /\ UNCHANGED <<plan, worktrees, folders, seen, lockVars, acceptVars, health>>

GitNext == RebaseReturn \/ MergeReturn

SpecGit == GitInit /\ [][GitNext]_vars

\* rebase_branch or merge_branch has returned a failure
GitFailed ==
    /\ res.op \in {"rebase_branch", "merge_branch"}
    /\ ~res.out.success

\* the word CONFLICT, compared case-insensitively, occurs in the text
MentionsConflict(text) ==
    \E i \in DOMAIN text : text[i].letters = "conflict"

\* C26: a failed rebase or merge is classified as a conflict
\* (conflicts=True) if and only if the substring CONFLICT, compared
\* case-insensitively, occurs in git's stdout or in git's stderr.
C26_ConflictIffMentioned ==
    GitFailed =>
        (res.out.conflicts <=>
            (MentionsConflict(res.ran.stdout) \/ MentionsConflict(res.ran.stderr)))

(***************************************************************************)
(* plan_parser.py: parse_plan on the text of a task section.  A section is *)
(* the sequence of its lines; a line is `- Key: value` or running text.    *)
(***************************************************************************)
\* longest task section, in lines
MaxLines == 2

EmptyText == Word("", "lower")

\* the letters of the valid statuses
StatusLetters ==
    [s \in VALID_STATUSES |->
        CASE s = "PENDING" -> "pending"
          [] s = "IN_PROGRESS" -> "in_progress"
          [] s = "IN_REVIEW" -> "in_review"
          [] s = "ITERATING" -> "iterating"
          [] s = "COMPLETED" -> "completed"
          [] s = "DONE" -> "done"
          [] s = "MERGED" -> "merged"
          [] s = "BLOCKED" -> "blocked"
          [] s = "ABANDONED" -> "abandoned"]

\* a member of VALID_STATUSES as a text
StatusText(s) == Word(StatusLetters[s], "upper")

\* the line `- <key>: <text>`; the value of a Dependencies line is kept as
\* its comma-separated pieces
Line(key, text, pieces) == [key |-> key, text |-> text, pieces |-> pieces]

\* one piece of a comma-separated value: its text, whether white space
\* surrounds it and whether it is written between backticks
Piece(text, pad, ticks) == [text |-> text, pad |-> pad, ticks |-> ticks]

\* what follows `Status:`: the valid statuses and three other words, each
\* in every case, or nothing
StatusValues ==
    {Word(l, c) : l \in {StatusLetters[s] : s \in VALID_STATUSES}
                        \cup {"wip", "complete", "in-progress"},
                  c \in Cases}
    \cup {EmptyText}

\* what follows `Dependencies:`
DependencyValues ==
    {<<>>,
     <<Piece(Word("none", "lower"), FALSE, FALSE)>>,
     <<Piece(Word("none", "mixed"), FALSE, FALSE)>>,
     <<Piece(Word("none", "upper"), TRUE, FALSE)>>,
     <<Piece(Word("n/a", "lower"), FALSE, FALSE)>>,
     <<Piece(Word("n/a", "upper"), FALSE, FALSE)>>,
     <<Piece(Word("-", "lower"), FALSE, FALSE)>>,
     <<Piece(Word("task-b", "lower"), FALSE, FALSE)>>,
     <<Piece(Word("task-b", "lower"), FALSE, TRUE)>>,
     <<Piece(Word("task-b", "lower"), FALSE, FALSE),
       Piece(Word("task-x", "lower"), TRUE, FALSE)>>,
     <<Piece(Word("task-b", "lower"), TRUE, FALSE),
       Piece(EmptyText, TRUE, FALSE),
       Piece(Word("none", "lower"), TRUE, FALSE)>>}

\* the lines a section is made of: Status, Dependencies and Branch lines,
\* and lines of running text
Lines ==
    {Line("Status", t, <<>>) : t \in StatusValues}
    \cup {Line("Dependencies", EmptyText, d) : d \in DependencyValues}
    \cup {Line("Branch", Word("feature/x", "lower"), <<>>)}
    \cup {Line("", Word("done when merged", "mixed"), <<>>),
          Line("", Word("see notes", "lower"), <<>>)}

\* the sections: every kind of line occurs at most once
Sections ==
    {ls \in UNION {[1..n -> Lines] : n \in 0..MaxLines} :
        \A i, j \in DOMAIN ls : i # j => ls[i].key # ls[j].key}

\* plan.md as text: one task section
PlanTexts ==
    {[readable |-> TRUE, order |-> <<"task-a">>, text |-> <<ls>>] :
        ls \in Sections}

\* the characters of a line as they stand in plan.md
LineText(line) ==
    CASE line.key = "" -> line.text
      [] line.key = "Status" ->
            Word("- status: " \o line.text.letters, "mixed")
      [] line.key = "Branch" ->
            Word("- branch: " \o line.text.letters, "mixed")
      [] OTHER -> Word("- dependencies:", "mixed")

\* what `\w+` matches at the start of a text
FirstWord(t) ==
    CASE t.letters = "in-progress" -> [t EXCEPT !.letters = "in"]
      [] t.letters = "done when merged" -> [t EXCEPT !.letters = "done"]
      [] t.letters = "see notes" -> [t EXCEPT !.letters = "see"]
      [] OTHER -> t

\* status_pattern tried at line i: `\s*` after `Status:` runs over the end
\* of the line, so that with nothing on the Status line `(\w+)` matches at
\* the start of the next line if a word starts there; EmptyText: no match
StatusCapture(ls, i) ==
    IF ls[i].key # "Status" THEN EmptyText
    ELSE IF ls[i].text # EmptyText THEN FirstWord(ls[i].text)
    ELSE IF i < Len(ls) /\ ls[i + 1].key = "" THEN FirstWord(ls[i + 1].text)
    ELSE EmptyText

\* status_pattern.search(section): the first match
StatusSearch(ls) ==
    LET hits == {i \in DOMAIN ls : StatusCapture(ls, i) # EmptyText}
    IN  IF hits = {} THEN EmptyText
        ELSE StatusCapture(ls, CHOOSE i \in hits : \A j \in hits : i <= j)

\* the status of a section (mutation: the word is compared as written)
SectionStatus_AsWritten(ls) ==
    LET status == StatusSearch(ls)
    IN  IF \E s \in VALID_STATUSES : StatusText(s) = status
        THEN CHOOSE s \in VALID_STATUSES : StatusText(s) = status
        ELSE "PENDING"

\* the status of a section: the matched word in upper case if that is a
\* valid status, else the default
SectionStatus(ls) ==
    LET status == Upper(StatusSearch(ls))
    IN  IF \E s \in VALID_STATUSES : StatusText(s) = status
        THEN CHOOSE s \in VALID_STATUSES : StatusText(s) = status
        ELSE "PENDING"

\* deps_pattern tried at line i: the pieces of what `(.+)$` captures; with
\* nothing on the Dependencies line `\s*` runs over the end of the line
\* and the whole next line is captured; <<>>: no match
DependenciesCapture(ls, i) ==
    IF ls[i].key # "Dependencies" THEN <<>>
    ELSE IF ls[i].pieces # <<>> THEN ls[i].pieces
    ELSE IF i < Len(ls) THEN <<Piece(LineText(ls[i + 1]), FALSE, FALSE)>>
    ELSE <<>>

\* deps_pattern.search(section): the first match
DependenciesSearch(ls) ==
    LET hits == {i \in DOMAIN ls : DependenciesCapture(ls, i) # <<>>}
    IN  IF hits = {} THEN <<>>
        ELSE DependenciesCapture(ls, CHOOSE i \in hits : \A j \in hits : i <= j)

\* the backtick character, written as a quote
Backtick == "'"

\* dep.strip()
Stripped(piece) ==
    IF piece.ticks
    THEN [piece.text EXCEPT !.letters = Backtick \o @ \o Backtick]
    ELSE piece.text

\* the dependencies of a section
SectionDependencies(ls) ==
    LET pieces == DependenciesSearch(ls)
        IsSentinel(t) ==
            Lower(t) \in {Word("none", "lower"), Word("n/a", "lower"),
                          Word("-", "lower"), EmptyText}
        Kept(piece) ==
            /\ Stripped(piece) # EmptyText
            /\ Lower(Stripped(piece)) \notin
                    {Word("none", "lower"), Word("n/a", "lower")}
        kept == SelectSeq(pieces, Kept)
    IN  IF pieces = <<>> THEN <<>>
        ELSE IF Len(pieces) = 1 /\ IsSentinel(Stripped(pieces[1])) THEN <<>>
        ELSE [i \in DOMAIN kept |-> kept[i].text]

\* parse_plan on the text of plan.md
ParsePlanText(p) ==
    IF p.readable
    THEN [success |-> TRUE, order |-> p.order,
          tasks |-> [i \in DOMAIN p.text |->
                        [status |-> SectionStatus(p.text[i]),
                         dependencies |-> SectionDependencies(p.text[i])]]]
    ELSE [success |-> FALSE, order |-> <<>>, tasks |-> <<>>]

ParseInit ==
    /\ LockInit
    /\ HealthIdle
    /\ AcceptIdle
    /\ plan \in PlanTexts
    /\ worktrees = {}
    /\ folders = {}
    /\ res = NoResult
    /\ seen = NoPlan

\* a call of parse_plan
ParseCall ==
    /\ res = NoResult
    /\ res' = [op |-> "parse_plan", out |-> ParsePlanText(plan)]
    /\ UNCHANGED <<plan, worktrees, folders, seen, lockVars, acceptVars, health>>

ParseNext == ParseCall

SpecParse == ParseInit /\ [][ParseNext]_vars

(***************************************************************************)
(* Properties of parse_plan                                                *)
(***************************************************************************)
ParseReturned == res.op = "parse_plan" /\ res.out.success

\* the lines of the parsed section
SectionRead == plan.text[1]

DependenciesValue(ls) ==
    LET at == {i \in DOMAIN ls : ls[i].key = "Dependencies"}
    IN  IF at = {} THEN <<>> ELSE ls[CHOOSE i \in at : TRUE].pieces

\* the value is "none", "n/a" or "-" in some letter case, or empty
NoDependencies(value) ==
    \/ value = <<>>
    \/ /\ Len(value) = 1
       /\ value[1].text.letters \in {"none", "n/a", "-", ""}

\* the names of a comma-separated value, trimmed
TrimmedNames(value) ==
    LET names == SelectSeq(value, LAMBDA piece :
                    piece.text.letters \notin {"none", "n/a", ""})
    IN  [i \in DOMAIN names |-> names[i].text]

\* C28: parse_plan yields an empty dependency list for a task whose
\* Dependencies value is "none", "n/a", "-" (in any letter case) or empty,
\* including when the Dependencies line is followed by further key lines
\* of the same task; any other value yields the comma-separated names,
\* trimmed.
C28_DependenciesParsed ==
    ParseReturned =>
        LET value == DependenciesValue(SectionRead)
        IN  res.out.tasks[1].dependencies =
                IF NoDependencies(value) THEN <<>> ELSE TrimmedNames(value)

(***************************************************************************)
(* The entry points that read plan.md, called on one workspace             *)
(***************************************************************************)
\* a call of parse_plan
QueryParse ==
    /\ res' = [op |-> "parse_plan", out |-> ParsePlan(plan)]
    /\ UNCHANGED <<plan, worktrees, folders, seen, lockVars, acceptVars, health>>

EntryNext ==
    \/ QueryParse
    \/ QueryUnblocked
    \/ QueryCheck
    \/ SpawnUnblocked
    \/ SpawnParallel
    \/ CreateAll
    \/ BatchReturn

\* the workspaces: no readable plan.md, or a plan whose first task has no
\* dependencies; any task folders and worktrees
EntryInit ==
    /\ LockInit
    /\ HealthIdle
    /\ AcceptIdle
    /\ plan \in {p \in BatchPlanInputs :
                    p.readable => p.tasks["task-a"].dependencies = <<>>}
    /\ folders \in SUBSET TaskNames
    /\ worktrees \in SUBSET folders
    /\ res = NoResult
    /\ seen = NoPlan

SpecEntry == EntryInit /\ [][EntryNext]_vars

SpawnUnblockedReturned ==
    /\ res.op = "spawn_unblocked_tasks"
    /\ plan.readable

\* the unblocked tasks of the plan that have no worktree
UnblockedWithoutWorktree ==
    {t \in SeqSet(GetUnblockedTasks(plan).unblocked) : t \notin worktrees}

Occurrences(x, s) == Cardinality({i \in DOMAIN s : s[i] = x})

\* how often the task is reported, over the four buckets
TimesReported(t, out) ==
    Occurrences(t, out.completed) + Occurrences(t, out.in_progress)
    + Occurrences(t, out.unblocked) + Occurrences(t, out.blockedNames)

\* C31: get_unblocked_tasks assigns every task of the plan to exactly one
\* of completed, in_progress, unblocked and blocked, except ABANDONED
\* tasks, which appear in none; no task name appears in two buckets, and
\* the classification by status takes precedence over the dependency check
\* (a completed-class or in-progress task is never reported unblocked or
\* blocked).
C31_BucketsPartition ==
    UnblockedReturned =>
        \A t \in DOMAIN plan.tasks :
            LET status == plan.tasks[t].status
                out == res.out
            IN  /\ TimesReported(t, out) =
                        IF status = "ABANDONED" THEN 0 ELSE 1
                /\ status \in COMPLETED_STATUSES =>
                        Occurrences(t, out.completed) = 1
                /\ status \in IN_PROGRESS_STATUSES =>
                        Occurrences(t, out.in_progress) = 1
                /\ status \in {"PENDING", "BLOCKED"} =>
                        Occurrences(t, out.unblocked)
                        + Occurrences(t, out.blockedNames) = 1

\* C31 witness: a COMPLETED task whose dependency is not completed is
\* reported completed, beside an ABANDONED task reported nowhere.
C31_Witness ==
    /\ UnblockedReturned
    /\ plan.tasks["task-a"].status = "COMPLETED"
    /\ plan.tasks["task-a"].dependencies = <<"task-b">>
    /\ plan.tasks["task-b"].status = "ABANDONED"
    /\ res.out.completed = <<"task-a">>
    /\ TimesReported("task-b", res.out) = 0

\* the missing list get_unblocked_tasks reports for the task: the one under
\* its key of `blocked`, none (empty) for a task that is not a key
ReportedMissing(t, out) ==
    IF \E i \in DOMAIN out.blockedNames : out.blockedNames[i] = t
    THEN out.blocked[CHOOSE i \in DOMAIN out.blockedNames :
                        out.blockedNames[i] = t].missing
    ELSE <<>>

\* the two results agree on the task
QueriesAgree(t, unblockedOut, checkOut) ==
    /\ InSeq(t, unblockedOut.unblocked) <=> checkOut.can_spawn
    /\ ReportedMissing(t, unblockedOut) = checkOut.missing

\* C32: for every task T of the plan with status PENDING or BLOCKED, T is in
\* get_unblocked_tasks().unblocked iff check_dependencies(T).can_spawn is
\* true, and T's missing list is the same in both results, when both read
\* the same plan.
C32_QueriesAgree ==
    /\ UnblockedReturned =>
        \A t \in DOMAIN plan.tasks :
            plan.tasks[t].status \in {"PENDING", "BLOCKED"}
            => QueriesAgree(t, res.out, CheckDependencies(t, plan))
    /\ \A t \in DOMAIN plan.tasks :
        (CheckReturned(t) /\ plan.tasks[t].status \in {"PENDING", "BLOCKED"})
        => QueriesAgree(t, GetUnblockedTasks(plan), res.out)

\* C32 witness: a BLOCKED task with two unmet dependencies, one absent from
\* the plan and one IN_PROGRESS, reported blocked with both missing.
C32_Witness ==
    /\ UnblockedReturned
    /\ plan.tasks["task-a"].status = "BLOCKED"
    /\ plan.tasks["task-a"].dependencies = <<"task-x", "task-b">>
    /\ plan.tasks["task-b"].status = "IN_PROGRESS"
    /\ ReportedMissing("task-a", res.out) = <<"task-x", "task-b">>
    /\ ~CheckDependencies("task-a", plan).can_spawn

(***************************************************************************)
(* plan_parser.py: working a plan off, one unblocked task after another    *)
(***************************************************************************)
\* every dependency names a task of the plan
DepsInPlan(tasks) ==
    \A t \in DOMAIN tasks : \A i \in DOMAIN tasks[t].dependencies :
        tasks[t].dependencies[i] \in DOMAIN tasks

\* no task depends on itself, directly or through other tasks
Acyclic(tasks) == \A t \in DOMAIN tasks : t \notin DependsOn(tasks, t)

NoAbandoned(tasks) == \A t \in DOMAIN tasks : tasks[t].status # "ABANDONED"

AllCompleted(tasks) ==
    \A t \in DOMAIN tasks : tasks[t].status \in COMPLETED_STATUSES

NoneInProgress(tasks) ==
    \A t \in DOMAIN tasks : tasks[t].status \notin IN_PROGRESS_STATUSES

DrainInit ==
    /\ LockInit
    /\ HealthIdle
    /\ AcceptIdle
    /\ plan \in {p \in PlanInputs :
                    /\ p.readable
                    /\ DepsInPlan(p.tasks)
                    /\ Acyclic(p.tasks)
                    /\ NoAbandoned(p.tasks)}
    /\ worktrees = {}
    /\ folders = {}
    /\ res = NoResult
    /\ seen = NoPlan

\* the operator asks which tasks can be started
DrainQuery ==
    /\ res' = [op |-> "get_unblocked_tasks", out |-> GetUnblockedTasks(plan)]
    /\ UNCHANGED <<plan, worktrees, folders, seen, lockVars, acceptVars, health>>

\* a task that get_unblocked_tasks just reported unblocked is worked off:
\* its Status line becomes completed-class
DrainComplete ==
    /\ UnblockedReturned
    /\ \E i \in DOMAIN res.out.unblocked, s \in COMPLETED_STATUSES :
        LET t == res.out.unblocked[i]
        IN  /\ plan' = [plan EXCEPT !.tasks[t].status = s]
            /\ res' = [op |-> "completed", task_name |-> t, from |-> res.out]
    /\ UNCHANGED <<worktrees, folders, seen, lockVars, acceptVars, health>>

\* a task that was already in progress is finished by its worker
DrainFinish ==
    /\ \E t \in DOMAIN plan.tasks, s \in COMPLETED_STATUSES :
        /\ plan.tasks[t].status \in IN_PROGRESS_STATUSES
        /\ plan' = [plan EXCEPT !.tasks[t].status = s]
        /\ res' = [op |-> "finished", task_name |-> t]
    /\ UNCHANGED <<worktrees, folders, seen, lockVars, acceptVars, health>>

DrainNext == DrainQuery \/ DrainComplete \/ DrainFinish

\* the operator keeps asking and keeps completing what is reported
\* unblocked; workers finish what they have in progress
SpecDrain ==
    /\ DrainInit
    /\ [][DrainNext]_vars
    /\ WF_vars(DrainQuery)
    /\ WF_vars(DrainComplete)
    /\ WF_vars(DrainFinish)

\* work is left, nobody is working, and get_unblocked_tasks offers nothing
DrainStuck ==
    /\ UnblockedReturned
    /\ ~AllCompleted(plan.tasks)
    /\ NoneInProgress(plan.tasks)
    /\ res.out.unblocked = <<>>

\* C33: for a plan whose dependencies all name tasks of the plan, whose
\* dependency graph is acyclic and which has no ABANDONED task: whenever
\* some task is not completed-class and no task is in progress,
\* get_unblocked_tasks reports at least one unblocked task, so repeatedly
\* completing unblocked tasks eventually brings every task to a
\* completed-class status.
C33_PlanDrains == [](~DrainStuck) /\ <>[]AllCompleted(plan.tasks)

\* C33 witness: the plan is worked off, the last task completed being one
\* that get_unblocked_tasks reported unblocked once the task it depends on
\* was completed, its Status line still saying BLOCKED.
C33_Witness ==
    /\ AllCompleted(plan.tasks)
    /\ res.op = "completed"
    /\ res.task_name = "task-b"
    /\ plan.tasks["task-b"].dependencies = <<"task-a">>
    /\ res.from.unblocked = <<"task-b">>
    /\ res.from.completed = <<"task-a">>
    /\ res.from.in_progress = <<>>

(***************************************************************************)
(* Properties of the sweep of sync_all_worktrees                           *)
(***************************************************************************)
SyncReturned == res # NoResult /\ res.op = "sync_all_worktrees"
                    /\ res.status = "returned"

\* the task names of the `failed` entries, in order
FailedTasks(failed) == [i \in DOMAIN failed |-> failed[i].task]

\* how often the sweep recorded the folder, over the three lists
TimesRecorded(t, s) ==
    Occurrences(t, s.synced) + Occurrences(t, FailedTasks(s.failed))
    + Occurrences(t, s.skipped)

\* C34: sync_all_worktrees visits every task-* directory of the workspace
\* exactly once and records it in exactly one of synced, failed and skipped
\* (skipped iff it has no worktree directory); a failed rebase does not stop
\* the sweep over the remaining directories, and the result's success is
\* true iff `failed` is empty.
C34_SweepRecordsEveryFolder ==
    SyncReturned =>
        /\ \A t \in TaskNames :
            /\ TimesRecorded(t, res) = IF t \in folders THEN 1 ELSE 0
            /\ InSeq(t, res.skipped) <=> (t \in folders /\ t \notin worktrees)
            /\ Occurrences(<<t, "rebase">>, res.git) =
                    IF t \in folders /\ t \in worktrees THEN 1 ELSE 0
        /\ res.success <=> res.failed = <<>>

\* C34 witness: the rebase of the first folder failed and the sweep still
\* went on to the second folder and synced it.
C34_Witness ==
    /\ SyncReturned
    /\ FailedTasks(res.failed) = <<"task-a">>
    /\ res.synced = <<"task-b">>
    /\ ~res.success

\* C35: after sync_all_worktrees returns, no worktree it visited is left
\* with a rebase in progress: every rebase that did not succeed was aborted
\* with `git rebase --abort` before the next worktree was processed.
C35_NoRebaseLeftInProgress ==
    SyncReturned => res.rebasing = {}

(***************************************************************************)
(* conflict_resolver.py: continue_rebase and abort_rebase                  *)
(*                                                                         *)
(* Here `repo` is one worktree during conflict resolution: whether         *)
(* rebase-merge/rebase-apply exists, the files `git diff --diff-filter=U`  *)
(* lists, and what is left of the rebase's todo list.  `res` is the last   *)
(* call: its result, the git commands it ran and the worktree it found.    *)
(***************************************************************************)
Files == {"a.py", "b.py"}

\* what a command of the todo list does when the rebase reaches it:
\* "pick" applies; "conflict" is a pick that stops with unmerged files;
\* "stop" is a pick git cannot execute and reschedules (no unmerged file);
\* "break" is the todo command of that name (or an `edit`): the rebase
\* stops there and git exits 0
TodoSteps == {"pick", "conflict", "stop", "break"}

\* longest todo list of the enumerated worktrees
MaxTodo == 2

TodoLists == UNION {[1..n -> TodoSteps] : n \in 0..MaxTodo}

NoRebase == [rebasing |-> FALSE, conflicted |-> {}, todo |-> <<>>]

\* is_rebase_in_progress
IsRebaseInProgress(w) == w.rebasing

\* get_conflicted_files
GetConflictedFiles(w) == w.conflicted

\* git working through the todo list
RECURSIVE RunTodo(_)
RunTodo(w) ==
    IF w.todo = <<>>
    THEN [returncode |-> 0, repo |-> NoRebase]
    ELSE CASE Head(w.todo) = "pick" ->
                RunTodo([w EXCEPT !.todo = Tail(@)])
           [] Head(w.todo) = "conflict" ->
                [returncode |-> 1,
                 repo |-> [w EXCEPT !.todo = Tail(@), !.conflicted = {"a.py"}]]
           [] Head(w.todo) = "stop" ->
                [returncode |-> 1, repo |-> w]
           [] OTHER ->
                [returncode |-> 0, repo |-> [w EXCEPT !.todo = Tail(@)]]

\* `git rebase --continue`: refused when no rebase is in progress, when
\* unmerged files remain, or when the commit cannot be made (`refused`);
\* otherwise the stopped commit is concluded and the todo list resumed
GitRebaseContinue(w, refused) ==
    IF ~w.rebasing \/ w.conflicted # {} \/ refused
    THEN [returncode |-> 1, repo |-> w]
    ELSE RunTodo(w)

\* `git rebase --abort`
GitRebaseAbort(w, fails) ==
    IF ~w.rebasing \/ fails
    THEN [returncode |-> 1, repo |-> w]
    ELSE [returncode |-> 0, repo |-> NoRebase]

ResolveResult(success, message, more_conflicts, git, w) ==
    [out |-> [success |-> success, message |-> message,
              more_conflicts |-> more_conflicts],
     git |-> git, repo |-> w]

\* continue_rebase
ContinueRebase(w, refused) ==
    IF ~IsRebaseInProgress(w)
    THEN ResolveResult(FALSE, "No rebase in progress", FALSE, <<>>, w)
    ELSE IF GetConflictedFiles(w) # {}
    THEN ResolveResult(FALSE, "Cannot continue", TRUE, <<"diff">>, w)
    ELSE LET ran == GitRebaseContinue(w, refused)
             after == ran.repo
         IN  IF ran.returncode # 0
             THEN IF GetConflictedFiles(after) # {}
                  THEN ResolveResult(FALSE, "Rebase continued but hit more conflicts",
                            TRUE, <<"diff", "rebase --continue", "diff">>, after)
                  ELSE ResolveResult(FALSE, "Rebase continue failed",
                            FALSE, <<"diff", "rebase --continue", "diff">>, after)
             ELSE IF IsRebaseInProgress(after) /\ GetConflictedFiles(after) # {}
                  THEN ResolveResult(FALSE,
                            "Rebase continued but more commits have conflicts",
                            TRUE, <<"diff", "rebase --continue", "diff">>, after)
                  ELSE ResolveResult(TRUE, "Rebase completed successfully",
                            FALSE,
                            IF IsRebaseInProgress(after)
                            THEN <<"diff", "rebase --continue", "diff">>
                            ELSE <<"diff", "rebase --continue">>, after)

\* abort_rebase without its is_rebase_in_progress check
AbortRebase_Unguarded(w, fails) ==
    LET ran == GitRebaseAbort(w, fails)
    IN  IF ran.returncode # 0
        THEN ResolveResult(FALSE, "Failed to abort rebase", FALSE,
                           <<"rebase --abort">>, ran.repo)
        ELSE ResolveResult(TRUE, "Rebase aborted", FALSE,
                           <<"rebase --abort">>, ran.repo)

\* abort_rebase
AbortRebase(w, fails) ==
    IF ~IsRebaseInProgress(w)
    THEN ResolveResult(FALSE, "No rebase in progress to abort", FALSE, <<>>, w)
    ELSE LET ran == GitRebaseAbort(w, fails)
         IN  IF ran.returncode # 0
             THEN ResolveResult(FALSE, "Failed to abort rebase", FALSE,
                                <<"rebase --abort">>, ran.repo)
             ELSE ResolveResult(TRUE, "Rebase aborted", FALSE,
                                <<"rebase --abort">>, ran.repo)

\* a worktree with no rebase (clean, or with unmerged files of a merge), or
\* a rebase stopped at a commit
ResolveInit ==
    /\ LockInit
    /\ HealthIdle
    /\ tx = NoTx
    /\ plan = NoPlan
    /\ worktrees = {}
    /\ folders = {}
    /\ seen = NoPlan
    /\ res = NoResult
    /\ repo \in [rebasing : {FALSE}, conflicted : SUBSET Files, todo : {<<>>}]
            \cup [rebasing : {TRUE}, conflicted : SUBSET Files, todo : TodoLists]

\* a call of continue_rebase
ResolveContinue ==
    /\ \E refused \in BOOLEAN :
        LET r == ContinueRebase(repo, refused)
        IN  /\ repo' = r.repo
            /\ res' = [op |-> "continue_rebase", out |-> r.out, git |-> r.git,
                       before |-> repo]
    /\ UNCHANGED <<plan, worktrees, folders, seen, lockVars, tx, health>>

\* a call of abort_rebase
ResolveAbort ==
    /\ \E fails \in BOOLEAN :
        LET r == AbortRebase(repo, fails)
        IN  /\ repo' = r.repo
            /\ res' = [op |-> "abort_rebase", out |-> r.out, git |-> r.git,
                       before |-> repo]
    /\ UNCHANGED <<plan, worktrees, folders, seen, lockVars, tx, health>>

\* the user resolves one unmerged file and stages it
ResolveStage ==
    /\ \E f \in repo.conflicted : repo' = [repo EXCEPT !.conflicted = @ \ {f}]
    /\ res' = NoResult
    /\ UNCHANGED <<plan, worktrees, folders, seen, lockVars, tx, health>>

ResolveNext == ResolveContinue \/ ResolveAbort \/ ResolveStage

SpecResolve == ResolveInit /\ [][ResolveNext]_vars

\* C36: whenever continue_rebase returns success=True ("Rebase completed
\* successfully"), no rebase is in progress in the worktree any more.
C36_SuccessMeansRebaseOver ==
    (res.op = "continue_rebase" /\ res.out.success) => ~IsRebaseInProgress(repo)

\* the call ran the git command
Ran(command) == InSeq(command, res.git)

\* the state continue_rebase needs: a rebase in progress, nothing unmerged
ReadyToContinue(w) == IsRebaseInProgress(w) /\ GetConflictedFiles(w) = {}

\* the call refused: success=False, no command that changes the worktree,
\* and the worktree as it was found
RefusedUntouched ==
    /\ ~res.out.success
    /\ ~Ran("rebase --continue")
    /\ ~Ran("rebase --abort")
    /\ repo = res.before

\* C37: continue_rebase and abort_rebase issue their git command only in
\* the right state: continue_rebase runs `git rebase --continue` only when a
\* rebase is in progress and no conflicted file remains, abort_rebase runs
\* `git rebase --abort` only when a rebase is in progress; otherwise each
\* returns success=False and leaves the worktree untouched.
C37_CommandsOnlyInRightState ==
    /\ res.op = "continue_rebase" =>
        /\ Ran("rebase --continue") => ReadyToContinue(res.before)
        /\ ~ReadyToContinue(res.before) => RefusedUntouched
    /\ res.op = "abort_rebase" =>
        /\ Ran("rebase --abort") => IsRebaseInProgress(res.before)
        /\ ~IsRebaseInProgress(res.before) => RefusedUntouched

\* C37 witness: abort_rebase called on a worktree that has unmerged files
\* but no rebase in progress refuses and runs nothing.
C37_Witness ==
    /\ res.op = "abort_rebase"
    /\ ~IsRebaseInProgress(res.before)
    /\ res.before.conflicted = {"a.py"}
    /\ res.out.message = "No rebase in progress to abort"
    /\ res.git = <<>>
    /\ repo = res.before

(***************************************************************************)
(* config.py: workspace.json and the configuration cache                   *)
(*                                                                         *)
(* Here `repo` is what the configuration module works on: `file`, the      *)
(* workspace.json of every workspace; `cache`, the module's _config_cache; *)
(* and `invalidated`, the workspaces for which a create_default_config     *)
(* succeeded or a clear_config_cache ran and no load_config since.  `res`  *)
(* is the last call and what it returned.                                  *)
(***************************************************************************)
Workspaces == {"ws1", "ws2"}

Keys == {"default_model", "test_timeout"}

\* values a workspace.json gives default_model: a valid name as the code
\* spells it, the same name in capitals, a name that is not a model
ModelValues == {Word("sonnet", "lower"), Word("sonnet", "upper"),
                Word("gpt", "lower")}

\* values a workspace.json gives test_timeout
TimeoutValues == {0, 60}

\* the object json.load returns for a well-formed file: the keys it has
\* and their values (a key that is absent has no value: a fixed filler)
DataDicts ==
    {d \in [keys : SUBSET Keys, default_model : ModelValues,
            test_timeout : TimeoutValues] :
        /\ "default_model" \notin d.keys
                => d.default_model = Word("sonnet", "lower")
        /\ "test_timeout" \notin d.keys => d.test_timeout = 60}

NoData == [keys |-> {}, default_model |-> Word("sonnet", "lower"),
           test_timeout |-> 60]

\* workspace.json: no workspace directory, no file, a file open() cannot
\* read, a file that is not JSON, or a JSON object
FileContents ==
    {[kind |-> k, data |-> NoData] :
        k \in {"no_workspace", "absent", "unreadable", "invalid_json"}}
    \cup {[kind |-> "json", data |-> d] : d \in DataDicts}

FileExists(f) == f.kind \notin {"no_workspace", "absent"}

DEFAULT_TEST_TIMEOUT == 300

DEFAULT_MODEL == Word("opus", "lower")

valid_models == {Word("opus", "lower"), Word("sonnet", "lower"),
                 Word("haiku", "lower")}

\* WorkspaceConfig()
DefaultConfig ==
    [test_timeout |-> DEFAULT_TEST_TIMEOUT, default_model |-> DEFAULT_MODEL]

\* a result without a `config` key
NoConfig == [test_timeout |-> 0, default_model |-> Word("", "lower")]

\* a workspace that is no key of _config_cache
NotCached == [present |-> FALSE, config |-> NoConfig]

Cached(config) == [present |-> TRUE, config |-> config]

LoadError(code) ==
    [success |-> FALSE, config |-> NoConfig, cached |-> FALSE, error |-> code]

LoadOk(config, cached) ==
    [success |-> TRUE, config |-> config, cached |-> cached, error |-> "none"]

\* WorkspaceConfig.from_dict: fields are validated in the order of the
\* source, the first failure raises ConfigValidationError
FromDict(data) ==
    IF "test_timeout" \in data.keys /\ data.test_timeout <= 0
    THEN LoadError("test_timeout")
    ELSE IF "default_model" \in data.keys
            /\ Lower(data.default_model) \notin valid_models
    THEN LoadError("default_model")
    ELSE LoadOk([test_timeout |-> IF "test_timeout" \in data.keys
                                  THEN data.test_timeout
                                  ELSE DEFAULT_TEST_TIMEOUT,
                 default_model |-> IF "default_model" \in data.keys
                                   THEN Lower(data.default_model)
                                   ELSE DEFAULT_MODEL],
                FALSE)

\* load_config past the cache: what the file gives
ReadConfig(f) ==
    IF ~FileExists(f) THEN LoadOk(DefaultConfig, FALSE)
    ELSE IF f.kind = "unreadable" THEN LoadError("CONFIG_LOAD_ERROR")
    ELSE IF f.kind = "invalid_json" THEN LoadError("CONFIG_PARSE_ERROR")
    ELSE FromDict(f.data)

\* load_config falling back to the defaults, and caching them, when the
\* file cannot be loaded (what get_config hands out in that case)
LoadConfig_CachesDefaultsOnFailure(c, w, force_reload) ==
    IF ~force_reload /\ c.cache[w].present
    THEN [out |-> LoadOk(c.cache[w].config, TRUE), cache |-> c.cache]
    ELSE LET out == ReadConfig(c.file[w])
         IN  [out |-> out,
              cache |-> [c.cache EXCEPT ![w] =
                            IF out.success THEN Cached(out.config)
                            ELSE Cached(DefaultConfig)]]

\* load_config: the result and the cache it leaves
LoadConfig(c, w, force_reload) ==
    IF ~force_reload /\ c.cache[w].present
    THEN [out |-> LoadOk(c.cache[w].config, TRUE), cache |-> c.cache]
    ELSE LET out == ReadConfig(c.file[w])
         IN  [out |-> out,
              cache |-> IF out.success
                        THEN [c.cache EXCEPT ![w] = Cached(out.config)]
                        ELSE c.cache]

\* the file create_default_config writes: the defaults, spelled out
DefaultFile ==
    [kind |-> "json",
     data |-> [keys |-> Keys, default_model |-> DEFAULT_MODEL,
               test_timeout |-> DEFAULT_TEST_TIMEOUT]]

\* create_default_config leaving the workspace's cache entry in place
CreateDefaultConfig_KeepsCache(c, w, overwrite, written) ==
    IF c.file[w].kind = "no_workspace"
    THEN [success |-> FALSE, error |-> "WORKSPACE_NOT_FOUND", state |-> c]
    ELSE IF FileExists(c.file[w]) /\ ~overwrite
    THEN [success |-> FALSE, error |-> "CONFIG_EXISTS", state |-> c]
    ELSE IF ~written
    THEN [success |-> FALSE, error |-> "CONFIG_WRITE_ERROR", state |-> c]
    ELSE [success |-> TRUE, error |-> "none",
          state |-> [c EXCEPT !.file[w] = DefaultFile,
                              !.invalidated = @ \cup {w}]]

\* create_default_config
CreateDefaultConfig(c, w, overwrite, written) ==
    IF c.file[w].kind = "no_workspace"
    THEN [success |-> FALSE, error |-> "WORKSPACE_NOT_FOUND", state |-> c]
    ELSE IF FileExists(c.file[w]) /\ ~overwrite
    THEN [success |-> FALSE, error |-> "CONFIG_EXISTS", state |-> c]
    ELSE IF ~written
    THEN [success |-> FALSE, error |-> "CONFIG_WRITE_ERROR", state |-> c]
    ELSE [success |-> TRUE, error |-> "none",
          state |-> [c EXCEPT !.file[w] = DefaultFile,
                              !.cache[w] = NotCached,
                              !.invalidated = @ \cup {w}]]

\* clear_config_cache: one workspace, or all of them when none is given
ClearConfigCache(c, ws) ==
    [c EXCEPT !.cache = [w \in Workspaces |->
                            IF w \in ws THEN NotCached ELSE c.cache[w]],
              !.invalidated = @ \cup ws]

\* the module has just been imported (_config_cache = {}); the files are
\* whatever is on disk
ConfigInit ==
    /\ LockInit
    /\ HealthIdle
    /\ tx = NoTx
    /\ plan = NoPlan
    /\ worktrees = {}
    /\ folders = {}
    /\ seen = NoPlan
    /\ res = NoResult
    /\ repo \in [file : [Workspaces -> FileContents],
                 cache : {[w \in Workspaces |-> NotCached]},
                 invalidated : {{}}]

\* a call of load_config
ConfigLoad ==
    /\ \E w \in Workspaces, force_reload \in BOOLEAN :
        LET r == LoadConfig(repo, w, force_reload)
        IN  /\ repo' = [repo EXCEPT !.cache = r.cache,
                                    !.invalidated = @ \ {w}]
            /\ res' = [op |-> "load_config", workspace |-> w,
                       force_reload |-> force_reload,
                       invalidated |-> w \in repo.invalidated, out |-> r.out]
    /\ UNCHANGED <<plan, worktrees, folders, seen, lockVars, tx, health>>

\* a call of create_default_config
ConfigCreate ==
    /\ \E w \in Workspaces, overwrite \in BOOLEAN, written \in BOOLEAN :
        LET r == CreateDefaultConfig(repo, w, overwrite, written)
        IN  /\ repo' = r.state
            /\ res' = [op |-> "create_default_config", workspace |-> w,
                       overwrite |-> overwrite,
                       out |-> [success |-> r.success, error |-> r.error]]
    /\ UNCHANGED <<plan, worktrees, folders, seen, lockVars, tx, health>>

\* a call of clear_config_cache
ConfigClear ==
    /\ \E ws \in {{w} : w \in Workspaces} \cup {Workspaces} :
        /\ repo' = ClearConfigCache(repo, ws)
        /\ res' = [op |-> "clear_config_cache", cleared |-> ws]
    /\ UNCHANGED <<plan, worktrees, folders, seen, lockVars, tx, health>>

\* somebody edits, creates or removes a workspace.json; the value a caller
\* got from an earlier call is dropped
ConfigEdit ==
    /\ \E w \in Workspaces, f \in FileContents :
        /\ f # repo.file[w]
        /\ repo' = [repo EXCEPT !.file[w] = f]
    /\ res' = NoResult
    /\ UNCHANGED <<plan, worktrees, folders, seen, lockVars, tx, health>>

ConfigNext == ConfigLoad \/ ConfigCreate \/ ConfigClear \/ ConfigEdit

SpecConfig == ConfigInit /\ [][ConfigNext]_vars

\* a load_config step for a workspace whose cache was invalidated and not
\* loaded since returns what the file gives now, not a cached value
LoadAfterInvalidationReads ==
    (res'.op = "load_config" /\ res'.workspace \in repo.invalidated)
    => /\ res'.out = ReadConfig(repo.file[res'.workspace])
       /\ ~res'.out.cached

\* a create_default_config step without overwrite on an existing file fails
\* and writes nothing
CreateKeepsExistingFile ==
    (/\ res'.op = "create_default_config"
     /\ ~res'.overwrite
     /\ FileExists(repo.file[res'.workspace]))
    => /\ ~res'.out.success
       /\ repo'.file = repo.file

\* C38: after a successful create_default_config or a clear_config_cache
\* for a workspace, the next load_config for that workspace returns the
\* configuration determined by the current workspace.json (or the defaults
\* when the file is absent), never a previously cached one;
\* create_default_config never replaces an existing workspace.json unless
\* overwrite is set.
C38_InvalidationForcesReload ==
    [][LoadAfterInvalidationReads /\ CreateKeepsExistingFile]_vars

\* C38 witness: a load_config without force_reload, the first after the
\* workspace's cache was invalidated, returns the capitalised model name of
\* the current file in lower case, uncached, and the cache now holds it.
C38_Witness ==
    /\ res.op = "load_config"
    /\ res.workspace = "ws1"
    /\ ~res.force_reload
    /\ res.invalidated
    /\ "default_model" \in repo.file["ws1"].data.keys
    /\ repo.file["ws1"].data.default_model = Word("sonnet", "upper")
    /\ res.out.success
    /\ ~res.out.cached
    /\ res.out.config.default_model = Word("sonnet", "lower")
    /\ repo.cache["ws1"] = Cached(res.out.config)

\* the configurations from_dict accepts
ValidatedConfigs ==
    {FromDict(d).config : d \in {x \in DataDicts : FromDict(x).success}}

\* the cache holds only the defaults or a configuration that passed
\* validation
CacheHoldsValidated ==
    \A w \in Workspaces :
        repo.cache[w].present
        => repo.cache[w].config \in ValidatedConfigs \cup {DefaultConfig}

\* a load_config step that fails leaves the cache as it was, and any
\* load_config step leaves the entries of the other workspaces as they were
LoadFrame ==
    res'.op = "load_config" =>
        /\ ~res'.out.success => repo'.cache = repo.cache
        /\ \A v \in Workspaces \ {res'.workspace} :
                repo'.cache[v] = repo.cache[v]

\* C39: a load_config that fails (invalid JSON, a field failing validation,
\* or a read error) changes no entry of the configuration cache: at all
\* times the cache maps a workspace only to the defaults or to a
\* configuration that passed validation, and entries of other workspaces
\* are never touched by a load.
C39_FailedLoadKeepsCache == []CacheHoldsValidated /\ [][LoadFrame]_vars

\* C39 witness: a forced reload of a workspace whose file now fails
\* validation has failed, and the configuration cached for it earlier and
\* the entry of the other workspace are still there.
C39_Witness ==
    /\ res.op = "load_config"
    /\ res.workspace = "ws1"
    /\ res.force_reload
    /\ ~res.out.success
    /\ res.out.error = "default_model"
    /\ repo.cache["ws1"] = Cached([DefaultConfig EXCEPT !.test_timeout = 60])
    /\ repo.cache["ws2"].present

(***************************************************************************)
(* conflict_resolver.py: get_conflict_markers                              *)
(*                                                                         *)
(* Here `res` is first the file the function is given and then the call    *)
(* with its result.  A line is the marker it begins with (none for other   *)
(* lines) and the rest of its text.                                        *)
(***************************************************************************)
START_MARKER == "<<<<<<<"

SEPARATOR_MARKER == "======="

END_MARKER == ">>>>>>>"

FileLine(marker, rest) == [marker |-> marker, rest |-> rest]

\* line.startswith(marker)
StartsWith(line, marker) == line.marker = marker

FileLines ==
    {FileLine(START_MARKER, " HEAD"), FileLine(SEPARATOR_MARKER, ""),
     FileLine(END_MARKER, " main"), FileLine("", "a"), FileLine("", "b")}

\* longest file of the enumerated inputs, in lines
MaxFileLines == 5

FileTexts == UNION {[1..n -> FileLines] : n \in 0..MaxFileLines}

\* the default of the max_lines parameter
DEFAULT_MAX_LINES == 20

\* the number of lines kept in ours_preview and theirs_preview
SIDE_PREVIEW_LINES == 10

TruncatedLine == FileLine("", "... (truncated)")

ScanStart ==
    [conflict_count |-> 0, preview_lines |-> <<>>, ours_lines |-> <<>>,
     theirs_lines |-> <<>>, in_conflict |-> FALSE, in_ours |-> FALSE,
     in_theirs |-> FALSE, first_conflict_captured |-> FALSE]

\* get_conflict_markers, one iteration of the loop over the lines
ScanLine(st, line) ==
    LET keep == IF st.first_conflict_captured
                THEN st.preview_lines
                ELSE Append(st.preview_lines, line)
    IN  IF StartsWith(line, START_MARKER)
        THEN [st EXCEPT !.conflict_count = @ + 1, !.in_conflict = TRUE,
                        !.in_ours = TRUE, !.in_theirs = FALSE,
                        !.preview_lines = keep]
        ELSE IF StartsWith(line, SEPARATOR_MARKER) /\ st.in_conflict
        THEN [st EXCEPT !.in_ours = FALSE, !.in_theirs = TRUE,
                        !.preview_lines = keep]
        ELSE IF StartsWith(line, END_MARKER) /\ st.in_conflict
        THEN [st EXCEPT !.in_conflict = FALSE, !.in_ours = FALSE,
                        !.in_theirs = FALSE, !.preview_lines = keep,
                        !.first_conflict_captured = TRUE]
        ELSE IF st.in_conflict /\ ~st.first_conflict_captured
        THEN [st EXCEPT !.preview_lines = Append(@, line),
                        !.ours_lines = IF st.in_ours THEN Append(@, line) ELSE @,
                        !.theirs_lines = IF ~st.in_ours /\ st.in_theirs
                                         THEN Append(@, line) ELSE @]
        ELSE st

RECURSIVE ScanLines(_, _)
ScanLines(st, lines) ==
    IF lines = <<>> THEN st
    ELSE ScanLines(ScanLine(st, Head(lines)), Tail(lines))

\* the preview cut to max_lines, with the line that says so
TruncatePreview(preview_lines, max_lines) ==
    IF Len(preview_lines) > max_lines
    THEN Append(SubSeq(preview_lines, 1, max_lines), TruncatedLine)
    ELSE preview_lines

\* get_conflict_markers on a file that exists and can be read
GetConflictMarkers(lines, max_lines) ==
    LET st == ScanLines(ScanStart, lines)
    IN  [conflict_count |-> st.conflict_count,
         preview |-> TruncatePreview(st.preview_lines, max_lines),
         ours_preview |-> Take(st.ours_lines, SIDE_PREVIEW_LINES),
         theirs_preview |-> Take(st.theirs_lines, SIDE_PREVIEW_LINES)]

MarkersInit ==
    /\ LockInit
    /\ HealthIdle
    /\ AcceptIdle
    /\ plan = NoPlan
    /\ worktrees = {}
    /\ folders = {}
    /\ seen = NoPlan
    /\ res \in {[op |-> "file", lines |-> f] : f \in FileTexts}

\* a call of get_conflict_markers
MarkersCall ==
    /\ res.op = "file"
    /\ \E max_lines \in {3, DEFAULT_MAX_LINES} :
        res' = [op |-> "get_conflict_markers", lines |-> res.lines,
                max_lines |-> max_lines,
                out |-> GetConflictMarkers(res.lines, max_lines)]
    /\ UNCHANGED <<plan, worktrees, folders, seen, lockVars, acceptVars, health>>

MarkersNext == MarkersCall

SpecMarkers == MarkersInit /\ [][MarkersNext]_vars

\* the first index from `from` on whose line begins with the marker
\* (Len + 1: there is none)
RECURSIVE FirstMarker(_, _, _)
FirstMarker(lines, marker, from) ==
    IF from > Len(lines) THEN Len(lines) + 1
    ELSE IF StartsWith(lines[from], marker) THEN from
    ELSE FirstMarker(lines, marker, from + 1)

\* the first conflict block: from the first start marker to the first end
\* marker after it (to the end of the file when it is not closed)
BlockStart(lines) == FirstMarker(lines, START_MARKER, 1)

BlockEnd(lines) == FirstMarker(lines, END_MARKER, BlockStart(lines) + 1)

\* its separator (the block's end when it has none)
BlockSeparator(lines) ==
    LET p == FirstMarker(lines, SEPARATOR_MARKER, BlockStart(lines) + 1)
    IN  IF p < BlockEnd(lines) THEN p ELSE BlockEnd(lines)

IsMarkerLine(line) == line.marker # ""

\* the lines with index in a..b that are not marker lines
ContentLines(lines, a, b) ==
    SelectSeq(SubSeq(lines, a, IF b < Len(lines) THEN b ELSE Len(lines)),
              LAMBDA l : ~IsMarkerLine(l))

\* C40: get_conflict_markers reports conflict_count equal to the number of
\* lines beginning with the conflict start marker '<<<<<<<', and its
\* preview, ours_preview and theirs_preview contain lines of the first
\* conflict block only, with the ours lines being those before '=======' and
\* the theirs lines those after it.
C40_MarkersOfFirstBlock ==
    res.op = "get_conflict_markers" =>
        LET lines == res.lines
            s == BlockStart(lines)
            p == BlockSeparator(lines)
            e == BlockEnd(lines)
        IN  /\ res.out.conflict_count =
                    Cardinality({i \in DOMAIN lines :
                                    StartsWith(lines[i], START_MARKER)})
            /\ res.out.preview =
                    TruncatePreview(SubSeq(lines, s,
                                        IF e < Len(lines) THEN e ELSE Len(lines)),
                                    res.max_lines)
            /\ res.out.ours_preview = ContentLines(lines, s + 1, p - 1)
            /\ res.out.theirs_preview = ContentLines(lines, p + 1, e - 1)

====
